---- MODULE Spec2Model ----
(***************************************************************************)
(* The real-time market-data layer of the trading bot:                     *)
(* WebSocketDataManager (src/src/websocket/data_manager.py) and the three  *)
(* feeds it composes, PriceFeed (price_feed.py), OrderBookFeed             *)
(* (orderbook_feed.py) and UserStateFeed (user_state_feed.py), on top of   *)
(* the HyperliquidWebSocket transport and the request/response API         *)
(* (nice_funcs_hyperliquid), which are external to these files.            *)
(*                                                                         *)
(* Conventions.  An Optional value is a sequence of length 0 (None) or 1.  *)
(* A wire field that the code parses with float() is a sequence as well:   *)
(* <<v>> parses to v, <<>> makes float() raise ValueError.  Prices are     *)
(* counted in half ticks, so that (bid + ask) / 2 is exact on the even     *)
(* numbers the messages carry.  Time is the wall clock in seconds.         *)
(***************************************************************************)
EXTENDS Integers, Sequences, FiniteSets, TLC

VARIABLES
    now,              \* wall clock: datetime.now() / time.time(), in seconds
    now_ms,           \* wall clock: time.time() * 1000, the milliseconds past now
    use_websocket,    \* WebSocketDataManager._use_websocket
    fallback_to_api,  \* WebSocketDataManager._fallback_to_api
    ACCOUNT_ADDRESS,  \* os.getenv("ACCOUNT_ADDRESS", ""), "" when unset
    is_initialized,   \* WebSocketDataManager._is_initialized
    ws_client,        \* WebSocketDataManager._ws_client: a transport id, 0 = None
    price_feed,       \* WebSocketDataManager._price_feed: Optional PriceFeed
    orderbook_feed,   \* WebSocketDataManager._orderbook_feed: Optional OrderBookFeed
    user_state_feed,  \* WebSocketDataManager._user_state_feed: Optional UserStateFeed
    transports,       \* every HyperliquidWebSocket constructed so far, by id
    delivery,         \* the delivery thread inside _process_l2_book, None when outside
    last_call,        \* the operation that made the last step, its input and outcome
    reads,            \* manager reads made since the last operation that is no read
    api_calls         \* request/response (fallback) calls made by those reads

vars == <<now, now_ms, use_websocket, fallback_to_api, ACCOUNT_ADDRESS, is_initialized,
          ws_client, price_feed, orderbook_feed, user_state_feed, transports,
          delivery, last_call, reads, api_calls>>

----------------------------------------------------------------------------
(* Bounds of the model and constants of the program *)

MaxTransports == 2   \* transports constructed in one behaviour
MaxSeq == 1          \* order-book messages processed per instrument
MaxReads == 3        \* consecutive manager reads that are counted
MaxChain == 3        \* handlers attached to one transport
MaxBookSeq == 2      \* order-book messages applied per instrument, where counted
MaxListeners == 2    \* listeners registered with the feeds of one manager
MaxHeard == 2        \* events a listener is called with, and fills buffered, where counted
MaxFillsSent == 105  \* well-formed fills the transport delivers to one feed

PRICE_STALE_THRESHOLD_SEC == 5
ORDERBOOK_STALE_THRESHOLD_SEC == 2
POSITION_STALE_THRESHOLD_SEC == 30
MAX_FILLS == 100

Coins == {"BTC", "ETH"}

\* the order in which a listing walks the instruments
CoinOrder == <<"BTC", "ETH">>

None == <<>>
Some(x) == <<x>>
NoWs == 0

\* float(raw): defined when the field parses
CanFloat(raw) == raw # <<>>
float(raw) == raw[1]

----------------------------------------------------------------------------
(* HyperliquidWebSocket: the transport.  Its module is not part of the     *)
(* sources; it is modelled from the interface the feeds use:               *)
(* connect(), close(), is_connected, subscribe_* / unsubscribe_* and the   *)
(* single _on_message_callback, here the chain of attached feed handlers   *)
(* in call order.                                                          *)

HyperliquidWebSocket(on_message) ==
    [is_connected |-> FALSE, closed |-> FALSE, on_message |-> on_message, subs |-> {}]

\* connect() followed by the bounded wait: conn tells whether the transport
\* reached the connected state before the timeout
ws_connect(t, conn) == [t EXCEPT !.is_connected = conn]

ws_close(t) == [t EXCEPT !.is_connected = FALSE, !.closed = TRUE]

ws_subscribe(t, chans) == [t EXCEPT !.subs = @ \cup chans]

ws_unsubscribe(t, chans) == [t EXCEPT !.subs = @ \ chans]

ChanAllMids == <<"allMids">>
ChanL2Book(coin) == <<"l2Book", coin>>
ChanUserFills(user) == <<"userFills", user>>
ChanOrderUpdates(user) == <<"orderUpdates", user>>
ChanUserEvents(user) == <<"userEvents", user>>

\* the entries of the call log an operation leaves on the transport
LogSub(t, chans) == [c \in 1..Cardinality(chans) |-> <<"subscribe", t>>]
LogUnsub(t, chans) == [c \in 1..Cardinality(chans) |-> <<"unsubscribe", t>>]
LogClose(t) == << <<"close", t>> >>

----------------------------------------------------------------------------
(* Listeners.  A feed's callback lists are one sequence of listeners in the *)
(* order they were registered; a listener is the event kind it was          *)
(* registered for, whether the callback raises, and what it was called with *)

Listener(kind, raises) == [kind |-> kind, raises |-> raises, heard |-> <<>>]

\* a callback loop without the try/except around each call: the exception of
\* a raising callback ends the loop
Notify_unguarded(listeners, kind, data) ==
    [i \in 1..Len(listeners) |->
        IF /\ listeners[i].kind = kind
           /\ \A j \in 1..(i - 1) : ~(listeners[j].kind = kind /\ listeners[j].raises)
        THEN [listeners[i] EXCEPT !.heard = Append(@, data)]
        ELSE listeners[i]]

\* for callback in self._on_..._callbacks: try: callback(data) except: log
Notify(listeners, kind, data) ==
    [i \in 1..Len(listeners) |->
        IF listeners[i].kind = kind
        THEN [listeners[i] EXCEPT !.heard = Append(@, data)]
        ELSE listeners[i]]

\* add_..._listener: the callback is appended
add_listener(f, kind, raises) ==
    [f EXCEPT !.listeners = Append(@, Listener(kind, raises))]

----------------------------------------------------------------------------
(* PriceFeed (price_feed.py) *)

TickerData(coin, price, t) ==
    [coin |-> coin, price |-> price, bid |-> 0, ask |-> 0, last_update |-> t]

PriceFeed(ws) ==
    [ws |-> ws, owns_ws |-> (ws = NoWs), prices |-> [c \in Coins |-> None],
     monitored_coins |-> {}, is_running |-> FALSE, listeners |-> <<>>]

TickerData_to_dict(tk) ==
    [channel |-> "ticker", coin |-> tk.coin, price |-> tk.price, bid |-> tk.bid,
     ask |-> tk.ask, timestamp |-> tk.last_update]

PriceFeedChans(coins) == {ChanAllMids} \cup {ChanL2Book(c) : c \in coins}

\* start(coins) of a feed f on the transports ts.  conn: whether a transport
\* that is not connected yet connects before the 10 s timeout.  The result
\* carries the feed, the transports, the return value and the transport calls.
\* start() without the early return of a running feed
PriceFeed_start_again(f, coins, conn, ts) ==
    LET f1  == [f EXCEPT !.monitored_coins = coins]
        id  == IF f.owns_ws THEN Len(ts) + 1 ELSE f.ws
        ts1 == IF f.owns_ws
               THEN Append(ts, ws_connect(HyperliquidWebSocket(<<"price">>), conn))
               ELSE [ts EXCEPT ![id].on_message = <<"price">> \o @,
                               ![id].is_connected = @ \/ (conn /\ ~ts[id].closed)]
        f2  == [f1 EXCEPT !.ws = id]
    IN  IF ~ts1[id].is_connected
        THEN [feed |-> f2, transports |-> ts1, ret |-> FALSE, log |-> <<>>]
        ELSE [feed |-> [f2 EXCEPT !.is_running = TRUE],
              transports |-> [ts1 EXCEPT ![id] = ws_subscribe(@, PriceFeedChans(coins))],
              ret |-> TRUE,
              log |-> LogSub(id, PriceFeedChans(coins))]

PriceFeed_start(f, coins, conn, ts) ==
    IF f.is_running
    THEN [feed |-> f, transports |-> ts, ret |-> TRUE, log |-> <<>>]
    ELSE
      LET f1  == [f EXCEPT !.monitored_coins = coins]
          id  == IF f.owns_ws THEN Len(ts) + 1 ELSE f.ws
          ts1 == IF f.owns_ws
                 THEN Append(ts, ws_connect(HyperliquidWebSocket(<<"price">>), conn))
                 ELSE [ts EXCEPT ![id].on_message = <<"price">> \o @,
                                 ![id].is_connected = @ \/ (conn /\ ~ts[id].closed)]
          f2  == [f1 EXCEPT !.ws = id]
      IN  IF ~ts1[id].is_connected
          THEN [feed |-> f2, transports |-> ts1, ret |-> FALSE, log |-> <<>>]
          ELSE [feed |-> [f2 EXCEPT !.is_running = TRUE],
                transports |-> [ts1 EXCEPT ![id] = ws_subscribe(@, PriceFeedChans(coins))],
                ret |-> TRUE,
                log |-> LogSub(id, PriceFeedChans(coins))]

\* stop() closing the transport whether or not the feed owns it
PriceFeed_stop_closing(f, ts) ==
    IF ~f.is_running
    THEN [feed |-> f, transports |-> ts, log |-> <<>>]
    ELSE
      LET unsub == f.ws # NoWs /\ ts[f.ws].is_connected
          chans == PriceFeedChans(f.monitored_coins)
          ts1   == IF unsub THEN [ts EXCEPT ![f.ws] = ws_unsubscribe(@, chans)] ELSE ts
          close == f.ws # NoWs
      IN  [feed |-> [f EXCEPT !.is_running = FALSE],
           transports |-> IF close THEN [ts1 EXCEPT ![f.ws] = ws_close(@)] ELSE ts1,
           log |-> (IF unsub THEN LogUnsub(f.ws, chans) ELSE <<>>)
                   \o (IF close THEN LogClose(f.ws) ELSE <<>>)]

PriceFeed_stop(f, ts) ==
    IF ~f.is_running
    THEN [feed |-> f, transports |-> ts, log |-> <<>>]
    ELSE
      LET unsub == f.ws # NoWs /\ ts[f.ws].is_connected
          chans == PriceFeedChans(f.monitored_coins)
          ts1   == IF unsub THEN [ts EXCEPT ![f.ws] = ws_unsubscribe(@, chans)] ELSE ts
          close == f.owns_ws /\ f.ws # NoWs
      IN  [feed |-> [f EXCEPT !.is_running = FALSE],
           transports |-> IF close THEN [ts1 EXCEPT ![f.ws] = ws_close(@)] ELSE ts1,
           log |-> (IF unsub THEN LogUnsub(f.ws, chans) ELSE <<>>)
                   \o (IF close THEN LogClose(f.ws) ELSE <<>>)]

\* _emit_price_update
PriceFeed_emit_price_update(f, coin) ==
    IF f.prices[coin] = None THEN f
    ELSE [f EXCEPT !.listeners =
            Notify(@, "price", TickerData_to_dict(f.prices[coin][1]))]

RECURSIVE PriceFeed_emit_price_updates(_, _)
PriceFeed_emit_price_updates(f, coins) ==
    IF coins = <<>> THEN f
    ELSE PriceFeed_emit_price_updates(PriceFeed_emit_price_update(f, coins[1]),
                                      Tail(coins))

\* _process_all_mids creating a ticker for every instrument of the message
PriceFeed_process_all_mids_unrestricted(f, mids) ==
    LET f1 == [f EXCEPT !.prices =
                [c \in Coins |->
                    IF c \in DOMAIN mids /\ CanFloat(mids[c])
                    THEN IF f.prices[c] # None
                         THEN Some([f.prices[c][1] EXCEPT !.price = float(mids[c]),
                                                          !.last_update = now])
                         ELSE Some(TickerData(c, float(mids[c]), now))
                    ELSE f.prices[c]]]
        Updated(c) == c \in DOMAIN mids /\ CanFloat(mids[c]) /\ f1.prices[c] # None
    IN  PriceFeed_emit_price_updates(f1, SelectSeq(CoinOrder, Updated))

\* _process_all_mids: mids maps some instruments to their price strings; the
\* instruments updated or created are then emitted, in the message's order
PriceFeed_process_all_mids(f, mids) ==
    LET f1 == [f EXCEPT !.prices =
                [c \in Coins |->
                    IF c \in DOMAIN mids /\ CanFloat(mids[c])
                    THEN IF f.prices[c] # None
                         THEN Some([f.prices[c][1] EXCEPT !.price = float(mids[c]),
                                                          !.last_update = now])
                         ELSE IF c \in f.monitored_coins \/ f.monitored_coins = {}
                              THEN Some(TickerData(c, float(mids[c]), now))
                              ELSE None
                    ELSE f.prices[c]]]
        Updated(c) == c \in DOMAIN mids /\ CanFloat(mids[c]) /\ f1.prices[c] # None
    IN  PriceFeed_emit_price_updates(f1, SelectSeq(CoinOrder, Updated))

\* _process_l2_book: data = [coin, bids, asks], the two sides of "levels".
\* float() of the top level is not guarded: a field that does not parse
\* raises out of the handler, after the assignments made before it.
PriceFeed_process_l2_book(f, data) ==
    LET coin == data.coin
        tk   == f.prices[coin][1]
        badb == data.bids # <<>> /\ ~CanFloat(data.bids[1].px)
        bada == data.asks # <<>> /\ ~CanFloat(data.asks[1].px)
        tk1  == IF data.bids # <<>> /\ ~badb
                THEN [tk EXCEPT !.bid = float(data.bids[1].px)] ELSE tk
        tk2  == IF data.asks # <<>> /\ ~bada
                THEN [tk1 EXCEPT !.ask = float(data.asks[1].px)] ELSE tk1
        tk3  == [tk2 EXCEPT !.last_update = now]
        tk4  == IF tk3.bid > 0 /\ tk3.ask > 0
                THEN [tk3 EXCEPT !.price = (tk3.bid + tk3.ask) \div 2] ELSE tk3
    IN  IF f.prices[coin] = None
        THEN [feed |-> f, raised |-> FALSE]
        ELSE IF badb
        THEN [feed |-> f, raised |-> TRUE]
        ELSE IF bada
        THEN [feed |-> [f EXCEPT !.prices[coin] = Some(tk1)], raised |-> TRUE]
        ELSE [feed |-> PriceFeed_emit_price_update(
                          [f EXCEPT !.prices[coin] = Some(tk4)], coin),
              raised |-> FALSE]

\* _handle_ws_message
PriceFeed_handle_ws_message(f, msg) ==
    IF msg.channel = "allMids"
    THEN [feed |-> PriceFeed_process_all_mids(f, msg.data), raised |-> FALSE]
    ELSE IF msg.channel = "l2Book"
    THEN PriceFeed_process_l2_book(f, msg.data)
    ELSE [feed |-> f, raised |-> FALSE]

PriceFeed_get_price(f, coin) ==
    IF f.prices[coin] # None THEN Some(f.prices[coin][1].price) ELSE None

PriceFeed_get_bid(f, coin) ==
    IF f.prices[coin] # None THEN Some(f.prices[coin][1].bid) ELSE None

PriceFeed_get_ask(f, coin) ==
    IF f.prices[coin] # None THEN Some(f.prices[coin][1].ask) ELSE None

\* get_bid_ask answering (0.0, 0.0), the defaults of a ticker, when there is none
PriceFeed_get_bid_ask_defaults(f, coin) ==
    IF f.prices[coin] # None
    THEN <<Some(f.prices[coin][1].bid), Some(f.prices[coin][1].ask)>>
    ELSE <<Some(0), Some(0)>>

PriceFeed_get_bid_ask(f, coin) ==
    IF f.prices[coin] # None
    THEN <<Some(f.prices[coin][1].bid), Some(f.prices[coin][1].ask)>>
    ELSE <<None, None>>

PriceFeed_get_ticker(f, coin) == f.prices[coin]

\* is_price_stale with a threshold that is stale when reached
PriceFeed_is_price_stale_at(f, coin, max_age_seconds) ==
    IF f.prices[coin] = None THEN TRUE
    ELSE now - f.prices[coin][1].last_update >= max_age_seconds

PriceFeed_is_price_stale(f, coin, max_age_seconds) ==
    IF f.prices[coin] = None THEN TRUE
    ELSE now - f.prices[coin][1].last_update > max_age_seconds

----------------------------------------------------------------------------
(* OrderBookFeed (orderbook_feed.py) *)

DEFAULT_DEPTH_LEVELS == 20
UPDATE_THROTTLE_MS == 100

\* a quotient of two floats that need not be a whole number: <<num, den>>
Frac(num, den) == <<num, den>>

\* Python truthiness of an Optional[float]: None and 0.0 are false
Truthy(opt) == opt # None /\ opt[1] # 0

OrderLevel(price, size, count) == [price |-> price, size |-> size, count |-> count]

OrderBook(coin, t) ==
    [coin |-> coin, bids |-> <<>>, asks |-> <<>>, last_update |-> t, sequence |-> 0]

best_bid(book) == IF book.bids # <<>> THEN Some(book.bids[1].price) ELSE None

best_ask(book) == IF book.asks # <<>> THEN Some(book.asks[1].price) ELSE None

mid_price(book) ==
    IF Truthy(best_bid(book)) /\ Truthy(best_ask(book))
    THEN Some((best_bid(book)[1] + best_ask(book)[1]) \div 2) ELSE None

spread(book) ==
    IF Truthy(best_bid(book)) /\ Truthy(best_ask(book))
    THEN Some(best_ask(book)[1] - best_bid(book)[1]) ELSE None

spread_percent(book) ==
    IF Truthy(spread(book)) /\ Truthy(mid_price(book))
    THEN Some(Frac(spread(book)[1] * 100, mid_price(book)[1])) ELSE None

RECURSIVE SumSizes(_)
SumSizes(levels) ==
    IF levels = <<>> THEN 0 ELSE levels[1].size + SumSizes(Tail(levels))

bid_depth(book) == SumSizes(book.bids)

ask_depth(book) == SumSizes(book.asks)

\* imbalance as the bids' share of the depth
imbalance_bid_share(book) ==
    LET total == bid_depth(book) + ask_depth(book)
    IN  IF total = 0 THEN Frac(0, 1)
        ELSE Frac(bid_depth(book), total)

imbalance(book) ==
    LET total == bid_depth(book) + ask_depth(book)
    IN  IF total = 0 THEN Frac(0, 1)
        ELSE Frac(bid_depth(book) - ask_depth(book), total)

OrderBook_to_dict(book) ==
    [coin |-> book.coin, bids |-> book.bids, asks |-> book.asks,
     best_bid |-> best_bid(book), best_ask |-> best_ask(book),
     mid_price |-> mid_price(book), spread |-> spread(book),
     spread_percent |-> spread_percent(book),
     bid_depth |-> bid_depth(book), ask_depth |-> ask_depth(book),
     imbalance |-> imbalance(book),
     last_update |-> book.last_update, sequence |-> book.sequence]

\* last_emit_time is a defaultdict(float): an instrument never emitted for
\* reads 0.0, which every reading of the clock exceeds by more than the
\* throttle; it is None here.  notified is what one listener registered with
\* add_orderbook_listener has been called with: per instrument, the sequence
\* numbers of the books it was passed.
OrderBookFeed(ws, depth_levels) ==
    [ws |-> ws, owns_ws |-> (ws = NoWs), depth_levels |-> depth_levels,
     update_throttle_ms |-> UPDATE_THROTTLE_MS,
     orderbooks |-> [c \in Coins |-> None],
     last_emit_time |-> [c \in Coins |-> None],
     notified |-> [c \in Coins |-> <<>>],
     monitored_coins |-> {}, is_running |-> FALSE, listeners |-> <<>>]

OrderBookFeedChans(coins) == {ChanL2Book(c) : c \in coins}

\* start() subscribing whether or not the transport has connected
OrderBookFeed_start_unchecked(f, coins, conn, ts) ==
    IF f.is_running
    THEN [feed |-> f, transports |-> ts, ret |-> TRUE, log |-> <<>>]
    ELSE
      LET f1  == [f EXCEPT !.monitored_coins = coins]
          id  == IF f.owns_ws THEN Len(ts) + 1 ELSE f.ws
          ts1 == IF f.owns_ws
                 THEN Append(ts, ws_connect(HyperliquidWebSocket(<<"orderbook">>), conn))
                 ELSE [ts EXCEPT ![id].on_message = <<"orderbook">> \o @,
                                 ![id].is_connected = @ \/ (conn /\ ~ts[id].closed)]
          f2  == [f1 EXCEPT !.ws = id]
      IN  [feed |-> [f2 EXCEPT !.is_running = TRUE,
                                !.orderbooks = [c \in Coins |->
                                    IF c \in coins THEN Some(OrderBook(c, now)) ELSE @[c]]],
           transports |-> [ts1 EXCEPT ![id] = ws_subscribe(@, OrderBookFeedChans(coins))],
           ret |-> TRUE,
           log |-> LogSub(id, OrderBookFeedChans(coins))]

OrderBookFeed_start(f, coins, conn, ts) ==
    IF f.is_running
    THEN [feed |-> f, transports |-> ts, ret |-> TRUE, log |-> <<>>]
    ELSE
      LET f1  == [f EXCEPT !.monitored_coins = coins]
          id  == IF f.owns_ws THEN Len(ts) + 1 ELSE f.ws
          ts1 == IF f.owns_ws
                 THEN Append(ts, ws_connect(HyperliquidWebSocket(<<"orderbook">>), conn))
                 ELSE [ts EXCEPT ![id].on_message = <<"orderbook">> \o @,
                                 ![id].is_connected = @ \/ (conn /\ ~ts[id].closed)]
          f2  == [f1 EXCEPT !.ws = id]
      IN  IF ~ts1[id].is_connected
          THEN [feed |-> f2, transports |-> ts1, ret |-> FALSE, log |-> <<>>]
          ELSE [feed |-> [f2 EXCEPT !.is_running = TRUE,
                                    !.orderbooks = [c \in Coins |->
                                        IF c \in coins THEN Some(OrderBook(c, now)) ELSE @[c]]],
                transports |-> [ts1 EXCEPT ![id] = ws_subscribe(@, OrderBookFeedChans(coins))],
                ret |-> TRUE,
                log |-> LogSub(id, OrderBookFeedChans(coins))]

\* stop() closing the transport whether or not the feed created it
OrderBookFeed_stop_closing(f, ts) ==
    IF ~f.is_running
    THEN [feed |-> f, transports |-> ts, log |-> <<>>]
    ELSE
      LET unsub == f.ws # NoWs /\ ts[f.ws].is_connected
          chans == OrderBookFeedChans(f.monitored_coins)
          ts1   == IF unsub THEN [ts EXCEPT ![f.ws] = ws_unsubscribe(@, chans)] ELSE ts
          close == f.ws # NoWs
      IN  [feed |-> [f EXCEPT !.is_running = FALSE],
           transports |-> IF close THEN [ts1 EXCEPT ![f.ws] = ws_close(@)] ELSE ts1,
           log |-> (IF unsub THEN LogUnsub(f.ws, chans) ELSE <<>>)
                   \o (IF close THEN LogClose(f.ws) ELSE <<>>)]

OrderBookFeed_stop(f, ts) ==
    IF ~f.is_running
    THEN [feed |-> f, transports |-> ts, log |-> <<>>]
    ELSE
      LET unsub == f.ws # NoWs /\ ts[f.ws].is_connected
          chans == OrderBookFeedChans(f.monitored_coins)
          ts1   == IF unsub THEN [ts EXCEPT ![f.ws] = ws_unsubscribe(@, chans)] ELSE ts
          close == f.owns_ws /\ f.ws # NoWs
      IN  [feed |-> [f EXCEPT !.is_running = FALSE],
           transports |-> IF close THEN [ts1 EXCEPT ![f.ws] = ws_close(@)] ELSE ts1,
           log |-> (IF unsub THEN LogUnsub(f.ws, chans) ELSE <<>>)
                   \o (IF close THEN LogClose(f.ws) ELSE <<>>)]

\* a side with a level that does not parse is dropped whole
ParseLevels_strict(raw) ==
    IF \A i \in 1..Len(raw) : CanFloat(raw[i].px) /\ CanFloat(raw[i].sz)
    THEN [i \in 1..Len(raw) |->
            OrderLevel(float(raw[i].px), float(raw[i].sz), raw[i].n)]
    ELSE <<>>

\* the levels of one side that parse, in their order, out of the first
\* depth_levels raw levels; a level that does not parse is skipped
RECURSIVE ParseLevels(_)
ParseLevels(raw) ==
    IF raw = <<>> THEN <<>>
    ELSE IF CanFloat(raw[1].px) /\ CanFloat(raw[1].sz)
         THEN <<OrderLevel(float(raw[1].px), float(raw[1].sz), raw[1].n)>>
              \o ParseLevels(Tail(raw))
         ELSE ParseLevels(Tail(raw))

\* the whole ladder, whatever the depth
FirstN_all(s, n) == s

FirstN(s, n) == SubSeq(s, 1, IF Len(s) < n THEN Len(s) ELSE n)

\* _emit_orderbook_update: the listener is called with the book's to_dict()
OrderBookFeed_emit_orderbook_update(f, coin) ==
    IF f.orderbooks[coin] = None THEN f
    ELSE [f EXCEPT !.notified[coin] = Append(@, f.orderbooks[coin][1].sequence),
                   !.listeners =
                        Notify(@, "orderbook", OrderBook_to_dict(f.orderbooks[coin][1]))]

\* _maybe_emit_update with one throttle clock for all instruments
OrderBookFeed_maybe_emit_update_shared(f, coin) ==
    IF \A c \in Coins :
          \/ f.last_emit_time[c] = None
          \/ now_ms - f.last_emit_time[c][1] >= f.update_throttle_ms
    THEN OrderBookFeed_emit_orderbook_update(
            [f EXCEPT !.last_emit_time[coin] = Some(now_ms)], coin)
    ELSE f

\* _maybe_emit_update
OrderBookFeed_maybe_emit_update(f, coin) ==
    IF f.last_emit_time[coin] = None
       \/ now_ms - f.last_emit_time[coin][1] >= f.update_throttle_ms
    THEN OrderBookFeed_emit_orderbook_update(
            [f EXCEPT !.last_emit_time[coin] = Some(now_ms)], coin)
    ELSE f

\* the part of _process_l2_book under the lock
OrderBookFeed_store_l2_book(f, data) ==
    LET coin == data.coin
        bids == ParseLevels(FirstN(data.bids, f.depth_levels))
        asks == ParseLevels(FirstN(data.asks, f.depth_levels))
        old  == IF f.orderbooks[coin] = None
                THEN OrderBook(coin, now) ELSE f.orderbooks[coin][1]
    IN  [f EXCEPT !.orderbooks[coin] =
            Some([old EXCEPT !.bids = bids, !.asks = asks,
                             !.last_update = now, !.sequence = @ + 1])]

OrderBookFeed_process_l2_book(f, data) ==
    OrderBookFeed_maybe_emit_update(OrderBookFeed_store_l2_book(f, data), data.coin)

OrderBookFeed_handle_ws_message(f, msg) ==
    IF msg.channel = "l2Book"
    THEN [feed |-> OrderBookFeed_process_l2_book(f, msg.data), raised |-> FALSE]
    ELSE [feed |-> f, raised |-> FALSE]

OrderBookFeed_get_orderbook(f, coin) == f.orderbooks[coin]

OrderBookFeed_get_best_bid(f, coin) ==
    IF f.orderbooks[coin] # None THEN best_bid(f.orderbooks[coin][1]) ELSE None

OrderBookFeed_get_best_ask(f, coin) ==
    IF f.orderbooks[coin] # None THEN best_ask(f.orderbooks[coin][1]) ELSE None

OrderBookFeed_get_spread(f, coin) ==
    IF f.orderbooks[coin] # None THEN spread(f.orderbooks[coin][1]) ELSE None

OrderBookFeed_get_depth(f, coin) ==
    IF f.orderbooks[coin] # None
    THEN [bid_depth |-> bid_depth(f.orderbooks[coin][1]),
          ask_depth |-> ask_depth(f.orderbooks[coin][1]),
          imbalance |-> imbalance(f.orderbooks[coin][1])]
    ELSE [bid_depth |-> 0, ask_depth |-> 0, imbalance |-> Frac(0, 1)]

OrderBookFeed_get_imbalance(f, coin) ==
    IF f.orderbooks[coin] # None THEN imbalance(f.orderbooks[coin][1]) ELSE Frac(0, 1)

OrderBookFeed_is_orderbook_stale(f, coin, max_age_seconds) ==
    IF f.orderbooks[coin] = None THEN TRUE
    ELSE now - f.orderbooks[coin][1].last_update > max_age_seconds

----------------------------------------------------------------------------
(* UserStateFeed (user_state_feed.py) *)

Position(coin, size, entry_price, unrealized_pnl, return_on_equity, leverage, liquidation_price, margin_used, t) ==
    [coin |-> coin, size |-> size, entry_price |-> entry_price,
     unrealized_pnl |-> unrealized_pnl, return_on_equity |-> return_on_equity,
     leverage |-> leverage, liquidation_price |-> liquidation_price,
     margin_used |-> margin_used, last_update |-> t]

is_long(pos) == pos.size > 0

side(pos) == IF is_long(pos) THEN "LONG" ELSE "SHORT"

\* pnl_percent without the scaling to a percentage
pnl_percent_unscaled(pos) == pos.return_on_equity

pnl_percent(pos) == pos.return_on_equity * 100

Position_to_dict(pos) ==
    [coin |-> pos.coin, size |-> pos.size, entry_price |-> pos.entry_price,
     unrealized_pnl |-> pos.unrealized_pnl, pnl_percent |-> pnl_percent(pos),
     leverage |-> pos.leverage, liquidation_price |-> pos.liquidation_price,
     margin_used |-> pos.margin_used, is_long |-> is_long(pos), side |-> side(pos),
     last_update |-> pos.last_update]

AccountState(t) ==
    [account_value |-> 0, withdrawable |-> 0, total_margin_used |-> 0,
     total_unrealized_pnl |-> 0, last_update |-> t]

\* str() of an order id
str(x) == <<"str", x>>

Fill(coin, buy_sell, size, price, t, fee, order_id, closed_pnl) ==
    [coin |-> coin, side |-> buy_sell, size |-> size, price |-> price, time |-> t,
     fee |-> fee, order_id |-> order_id, closed_pnl |-> closed_pnl]

Fill_to_dict(fill) ==
    [fill EXCEPT !.side = IF fill.side = "B" THEN "BUY" ELSE "SELL"]

\* __init__: the address is the argument or, without one, ACCOUNT_ADDRESS
UserStateFeed(ws, user_address) ==
    [ws |-> ws, owns_ws |-> (ws = NoWs),
     user_address |-> IF user_address # "" THEN user_address ELSE ACCOUNT_ADDRESS,
     positions |-> [c \in Coins |-> None], recent_fills |-> <<>>,
     max_fills |-> MAX_FILLS,
     account_state |-> AccountState(now),
     is_running |-> FALSE, initial_state_loaded |-> FALSE, listeners |-> <<>>]

UserStateFeedChans(user) ==
    {ChanUserFills(user), ChanOrderUpdates(user), ChanUserEvents(user)}

\* the positions of the API listing, put over the tracked ones, entry by entry
RECURSIVE LoadPositions(_, _)
LoadPositions(positions, listing) ==
    IF listing = <<>> THEN positions
    ELSE LET pos == listing[1]
         IN  LoadPositions(
                [positions EXCEPT ![pos.symbol] =
                    Some(Position(pos.symbol, pos.size, pos.entry_price, 0,
                                  pos.pnl_percent \div 100, 1, None, 0, now))],
                Tail(listing))

\* _load_initial_state.  api: the answers of get_all_positions,
\* get_account_value and get_balance, and which of the calls raises, if any
\* (fail = "positions", "account" or "none"); the exception is swallowed.
UserStateFeed_load_initial_state(f, api) ==
    IF api.fail = "positions" THEN f
    ELSE LET f1 == [f EXCEPT !.positions = LoadPositions(@, api.positions)]
         IN  IF api.fail = "account" THEN f1
             ELSE [f1 EXCEPT !.account_state.account_value = api.account_value,
                             !.account_state.withdrawable = api.balance,
                             !.account_state.last_update = now,
                             !.initial_state_loaded = TRUE]

UserStateFeed_start(f, conn, api, ts) ==
    IF f.is_running
    THEN [feed |-> f, transports |-> ts, ret |-> TRUE, log |-> <<>>]
    ELSE IF f.user_address = ""
    THEN [feed |-> f, transports |-> ts, ret |-> FALSE, log |-> <<>>]
    ELSE
      LET f1  == UserStateFeed_load_initial_state(f, api)
          id  == IF f.owns_ws THEN Len(ts) + 1 ELSE f.ws
          ts1 == IF f.owns_ws
                 THEN Append(ts, ws_connect(HyperliquidWebSocket(<<"user">>), conn))
                 ELSE [ts EXCEPT ![id].on_message = <<"user">> \o @,
                                 ![id].is_connected = @ \/ (conn /\ ~ts[id].closed)]
          f2  == [f1 EXCEPT !.ws = id]
          chans == UserStateFeedChans(f.user_address)
      IN  IF ~ts1[id].is_connected
          THEN [feed |-> f2, transports |-> ts1, ret |-> FALSE, log |-> <<>>]
          ELSE [feed |-> [f2 EXCEPT !.is_running = TRUE],
                transports |-> [ts1 EXCEPT ![id] = ws_subscribe(@, chans)],
                ret |-> TRUE,
                log |-> LogSub(id, chans)]

UserStateFeed_stop(f, ts) ==
    IF ~f.is_running
    THEN [feed |-> f, transports |-> ts, log |-> <<>>]
    ELSE
      LET unsub == f.ws # NoWs /\ ts[f.ws].is_connected /\ f.user_address # ""
          chans == UserStateFeedChans(f.user_address)
          ts1   == IF unsub THEN [ts EXCEPT ![f.ws] = ws_unsubscribe(@, chans)] ELSE ts
          close == f.owns_ws /\ f.ws # NoWs
      IN  [feed |-> [f EXCEPT !.is_running = FALSE],
           transports |-> IF close THEN [ts1 EXCEPT ![f.ws] = ws_close(@)] ELSE ts1,
           log |-> (IF unsub THEN LogUnsub(f.ws, chans) ELSE <<>>)
                   \o (IF close THEN LogClose(f.ws) ELSE <<>>)]

\* whether every float() of one assetPositions entry with nonzero size parses
EntryParses(raw_pos) ==
    /\ CanFloat(raw_pos.entryPx) /\ CanFloat(raw_pos.unrealizedPnl)
    /\ CanFloat(raw_pos.returnOnEquity) /\ CanFloat(raw_pos.leverage)
    /\ (raw_pos.liquidationPx # None => CanFloat(raw_pos.liquidationPx[1]))
    /\ CanFloat(raw_pos.marginUsed)

\* _update_positions, entry by entry; an entry that raises is skipped
RECURSIVE UserStateFeed_update_positions(_, _)
UserStateFeed_update_positions(positions, positions_data) ==
    IF positions_data = <<>> THEN positions
    ELSE
      LET raw_pos == positions_data[1]
          coin    == raw_pos.coin
          next    ==
            IF ~CanFloat(raw_pos.szi) THEN positions
            ELSE IF float(raw_pos.szi) # 0
            THEN IF EntryParses(raw_pos)
                 THEN [positions EXCEPT ![coin] =
                        Some(Position(coin, float(raw_pos.szi), float(raw_pos.entryPx),
                                      float(raw_pos.unrealizedPnl),
                                      float(raw_pos.returnOnEquity),
                                      float(raw_pos.leverage),
                                      IF raw_pos.liquidationPx # None
                                      THEN Some(float(raw_pos.liquidationPx[1])) ELSE None,
                                      float(raw_pos.marginUsed), now))]
                 ELSE positions
            ELSE IF positions[coin] # None
            THEN [positions EXCEPT ![coin] = None]
            ELSE positions
      IN  UserStateFeed_update_positions(next, Tail(positions_data))

\* the instruments _update_positions appends to updated_coins
RECURSIVE UserStateFeed_updated_coins(_, _)
UserStateFeed_updated_coins(positions, positions_data) ==
    IF positions_data = <<>> THEN <<>>
    ELSE
      LET raw_pos == positions_data[1]
          coin    == raw_pos.coin
          changed ==
            IF ~CanFloat(raw_pos.szi) THEN FALSE
            ELSE IF float(raw_pos.szi) # 0 THEN EntryParses(raw_pos)
            ELSE positions[coin] # None
      IN  (IF changed THEN <<coin>> ELSE <<>>)
          \o UserStateFeed_updated_coins(
                UserStateFeed_update_positions(positions, <<raw_pos>>),
                Tail(positions_data))

\* _emit_position_update saying nothing of an instrument that is not tracked
UserStateFeed_emit_position_update_open(f, coin) ==
    IF f.positions[coin] = None THEN f
    ELSE [f EXCEPT !.listeners =
            Notify(@, "position", Position_to_dict(f.positions[coin][1]))]

\* _emit_position_update: the position's dict, or the closed marker of an
\* instrument that is not tracked any more
UserStateFeed_emit_position_update(f, coin) ==
    [f EXCEPT !.listeners =
        Notify(@, "position",
               IF f.positions[coin] # None
               THEN Position_to_dict(f.positions[coin][1])
               ELSE [coin |-> coin, size |-> 0, closed |-> TRUE])]

RECURSIVE UserStateFeed_emit_position_updates(_, _)
UserStateFeed_emit_position_updates(f, coins) ==
    IF coins = <<>> THEN f
    ELSE UserStateFeed_emit_position_updates(
            UserStateFeed_emit_position_update(f, coins[1]), Tail(coins))

\* _update_account_state: the four float() calls are not guarded; the fields
\* are assigned one after the other; the account listeners are called after them
UserStateFeed_update_account_state(f, margin_data) ==
    LET a  == f.account_state
        a1 == [a EXCEPT !.account_value = float(margin_data.accountValue)]
        a2 == [a1 EXCEPT !.withdrawable = float(margin_data.withdrawable)]
        a3 == [a2 EXCEPT !.total_margin_used = float(margin_data.totalMarginUsed)]
        a4 == [a3 EXCEPT !.total_unrealized_pnl = float(margin_data.totalNtlPos),
                         !.last_update = now]
    IN  IF ~CanFloat(margin_data.accountValue)
        THEN [feed |-> f, raised |-> TRUE]
        ELSE IF ~CanFloat(margin_data.withdrawable)
        THEN [feed |-> [f EXCEPT !.account_state = a1], raised |-> TRUE]
        ELSE IF ~CanFloat(margin_data.totalMarginUsed)
        THEN [feed |-> [f EXCEPT !.account_state = a2], raised |-> TRUE]
        ELSE IF ~CanFloat(margin_data.totalNtlPos)
        THEN [feed |-> [f EXCEPT !.account_state = a3], raised |-> TRUE]
        ELSE [feed |-> [f EXCEPT !.account_state = a4,
                                 !.listeners = Notify(@, "account", a4)],
              raised |-> FALSE]

\* _process_user_events taking the position list for a snapshot: a position
\* the list does not name is removed
UserStateFeed_process_user_events_snapshot(f, events_data) ==
    LET named == IF events_data.assetPositions # None
                 THEN {events_data.assetPositions[1][i].coin :
                         i \in 1..Len(events_data.assetPositions[1])}
                 ELSE Coins
        f1 == IF events_data.assetPositions # None
              THEN UserStateFeed_emit_position_updates(
                     [f EXCEPT !.positions =
                        [c \in Coins |->
                           IF c \in named
                           THEN UserStateFeed_update_positions(
                                  @, events_data.assetPositions[1])[c]
                           ELSE None]],
                     UserStateFeed_updated_coins(f.positions,
                                                 events_data.assetPositions[1]))
              ELSE f
    IN  IF events_data.marginSummary # None
        THEN UserStateFeed_update_account_state(f1, events_data.marginSummary[1])
        ELSE [feed |-> f1, raised |-> FALSE]

\* _process_user_events: each of the two keys is optional
UserStateFeed_process_user_events(f, events_data) ==
    LET f1 == IF events_data.assetPositions # None
              THEN UserStateFeed_emit_position_updates(
                     [f EXCEPT !.positions =
                        UserStateFeed_update_positions(@, events_data.assetPositions[1])],
                     UserStateFeed_updated_coins(f.positions,
                                                 events_data.assetPositions[1]))
              ELSE f
    IN  IF events_data.marginSummary # None
        THEN UserStateFeed_update_account_state(f1, events_data.marginSummary[1])
        ELSE [feed |-> f1, raised |-> FALSE]

\* the buffer keeping its oldest fills
TrimFills_oldest(fills, max_fills) ==
    IF Len(fills) > max_fills
    THEN SubSeq(fills, Len(fills) - max_fills + 1, Len(fills)) ELSE fills

\* the trim of the fill buffer
TrimFills(fills, max_fills) ==
    IF Len(fills) > max_fills THEN SubSeq(fills, 1, max_fills) ELSE fills

\* _process_fills, fill by fill; a fill that raises is skipped
RECURSIVE UserStateFeed_process_fills(_, _)
UserStateFeed_process_fills(f, fills_data) ==
    IF fills_data = <<>> THEN f
    ELSE
      LET fill_data == fills_data[1]
          fill == Fill(fill_data.coin, fill_data.side, float(fill_data.sz),
                       float(fill_data.px), now, float(fill_data.fee),
                       str(fill_data.oid), float(fill_data.closedPnl))
          next ==
            IF /\ CanFloat(fill_data.sz) /\ CanFloat(fill_data.px)
               /\ CanFloat(fill_data.fee) /\ CanFloat(fill_data.closedPnl)
            THEN [f EXCEPT !.recent_fills = TrimFills(<<fill>> \o @, f.max_fills),
                           !.listeners = Notify(@, "fill", Fill_to_dict(fill))]
            ELSE f
      IN  UserStateFeed_process_fills(next, Tail(fills_data))

\* _process_order_updates, update by update; an update that raises is skipped
RECURSIVE UserStateFeed_process_order_updates(_, _)
UserStateFeed_process_order_updates(f, updates_data) ==
    IF updates_data = <<>> THEN f
    ELSE
      LET update == updates_data[1]
          order_data ==
            [order_id |-> str(update.order.oid), coin |-> update.order.coin,
             side |-> update.order.side, size |-> float(update.order.sz),
             price |-> float(update.order.limitPx), status |-> update.status,
             filled |-> float(update.order.filled)]
          next ==
            IF /\ CanFloat(update.order.sz) /\ CanFloat(update.order.limitPx)
               /\ CanFloat(update.order.filled)
            THEN [f EXCEPT !.listeners = Notify(@, "order", order_data)]
            ELSE f
      IN  UserStateFeed_process_order_updates(next, Tail(updates_data))

UserStateFeed_handle_ws_message(f, msg) ==
    IF msg.channel = "userFills"
    THEN [feed |-> UserStateFeed_process_fills(f, msg.data), raised |-> FALSE]
    ELSE IF msg.channel = "orderUpdates"
    THEN [feed |-> UserStateFeed_process_order_updates(f, msg.data), raised |-> FALSE]
    ELSE IF msg.channel = "userEvents"
    THEN UserStateFeed_process_user_events(f, msg.data)
    ELSE [feed |-> f, raised |-> FALSE]

\* get_recent_fills(limit)
UserStateFeed_get_recent_fills(f, limit) ==
    [i \in 1..(IF Len(f.recent_fills) < limit THEN Len(f.recent_fills) ELSE limit) |->
        Fill_to_dict(f.recent_fills[i])]

UserStateFeed_get_position(f, coin) == f.positions[coin]

RECURSIVE PositionsList(_, _)
PositionsList(positions, order) ==
    IF order = <<>> THEN <<>>
    ELSE (IF positions[order[1]] # None
          THEN <<Position_to_dict(positions[order[1]][1])>> ELSE <<>>)
         \o PositionsList(positions, Tail(order))

UserStateFeed_get_positions_list(f) == PositionsList(f.positions, CoinOrder)

UserStateFeed_get_account_state(f) == f.account_state

UserStateFeed_has_position(f, coin) ==
    f.positions[coin] # None /\ f.positions[coin][1].size # 0

UserStateFeed_is_position_stale(f, coin, max_age_seconds) ==
    IF f.positions[coin] = None THEN TRUE
    ELSE now - f.positions[coin][1].last_update > max_age_seconds

----------------------------------------------------------------------------
(* WebSocketDataManager (data_manager.py): the reads.                      *)
(* A read yields [src, ret, calls]: where the answer came from ("feed",    *)
(* "api", "sentinel" or "raise"), the answer, and the number of            *)
(* request/response calls made.  api is the answer the request/response    *)
(* function gives if it is called.  get_position answers "absent" when it  *)
(* reports no position because the feed tracks none.                       *)

Answer(src, ret, calls) == [src |-> src, ret |-> ret, calls |-> calls]

PF == price_feed[1]
OBF == orderbook_feed[1]
USF == user_state_feed[1]

\* get_current_price answering from the feed whether or not the manager runs
Manager_get_current_price_unguarded(symbol, api) ==
    IF price_feed # None
       /\ PriceFeed_get_price(PF, symbol) # None
       /\ ~PriceFeed_is_price_stale(PF, symbol, PRICE_STALE_THRESHOLD_SEC)
    THEN Answer("feed", PriceFeed_get_price(PF, symbol)[1], 0)
    ELSE IF fallback_to_api
    THEN Answer("api", api, 1)
    ELSE Answer("raise", "No price data available", 0)

\* get_current_price answering from the feed whatever the age of the price
Manager_get_current_price_unchecked(symbol, api) ==
    IF is_initialized /\ price_feed # None
       /\ PriceFeed_get_price(PF, symbol) # None
    THEN Answer("feed", PriceFeed_get_price(PF, symbol)[1], 0)
    ELSE IF fallback_to_api
    THEN Answer("api", api, 1)
    ELSE Answer("raise", "No price data available", 0)

Manager_get_current_price(symbol, api) ==
    IF is_initialized /\ price_feed # None
       /\ PriceFeed_get_price(PF, symbol) # None
       /\ ~PriceFeed_is_price_stale(PF, symbol, PRICE_STALE_THRESHOLD_SEC)
    THEN Answer("feed", PriceFeed_get_price(PF, symbol)[1], 0)
    ELSE IF fallback_to_api
    THEN Answer("api", api, 1)
    ELSE Answer("raise", "No price data available", 0)

\* is_running
Manager_is_running ==
    IF is_initialized /\ ws_client # NoWs
    THEN transports[ws_client].is_connected ELSE FALSE

\* get_data_source(symbol) of the module, over the global manager
get_data_source(symbol) ==
    IF Manager_is_running /\ price_feed # None
    THEN IF ~PriceFeed_is_price_stale(PF, symbol, PRICE_STALE_THRESHOLD_SEC)
         THEN "websocket" ELSE "api"
    ELSE "api"

\* the first source of get_ask_bid: the ticker of the price feed
AskBidFromTicker(symbol) ==
    /\ is_initialized /\ price_feed # None
    /\ PriceFeed_get_ticker(PF, symbol) # None
    /\ PriceFeed_get_ticker(PF, symbol)[1].ask > 0
    /\ PriceFeed_get_ticker(PF, symbol)[1].bid > 0
    /\ ~PriceFeed_is_price_stale(PF, symbol, PRICE_STALE_THRESHOLD_SEC)

\* the second source of get_ask_bid: the book of the order-book feed
AskBidFromBook(symbol) ==
    /\ is_initialized /\ orderbook_feed # None
    /\ OrderBookFeed_get_orderbook(OBF, symbol) # None
    /\ Truthy(best_ask(OrderBookFeed_get_orderbook(OBF, symbol)[1]))
    /\ Truthy(best_bid(OrderBookFeed_get_orderbook(OBF, symbol)[1]))
    /\ ~OrderBookFeed_is_orderbook_stale(OBF, symbol, ORDERBOOK_STALE_THRESHOLD_SEC)

\* get_ask_bid without its second source
Manager_get_ask_bid_ticker_only(symbol, api) ==
    IF AskBidFromTicker(symbol)
    THEN Answer("feed", <<PriceFeed_get_ticker(PF, symbol)[1].ask,
                          PriceFeed_get_ticker(PF, symbol)[1].bid, None>>, 0)
    ELSE IF fallback_to_api
    THEN Answer("api", api, 1)
    ELSE Answer("raise", "No bid/ask data available", 0)

Manager_get_ask_bid(symbol, api) ==
    IF AskBidFromTicker(symbol)
    THEN LET ticker == PriceFeed_get_ticker(PF, symbol)[1]
         IN  Answer("feed", <<ticker.ask, ticker.bid, None>>, 0)
    ELSE IF AskBidFromBook(symbol)
    THEN LET book == OrderBookFeed_get_orderbook(OBF, symbol)[1]
         IN  Answer("feed", <<best_ask(book)[1], best_bid(book)[1], None>>, 0)
    ELSE IF fallback_to_api
    THEN Answer("api", api, 1)
    ELSE Answer("raise", "No bid/ask data available", 0)

\* one side of the API's levels, as _api_get_orderbook reshapes it
RECURSIVE ApiLevels(_)
ApiLevels(raw) ==
    IF raw = <<>> THEN <<>>
    ELSE <<[price |-> float(raw[1].px), size |-> float(raw[1].sz)]>>
         \o ApiLevels(Tail(raw))

\* _api_get_orderbook, on the answer <<ask, bid, levels>> of _api_ask_bid
Manager_api_get_orderbook(symbol, api) ==
    LET levels == api[3]
        two    == levels # None /\ Len(levels) >= 2
    IN  [coin |-> symbol,
         bids |-> IF two THEN ApiLevels(FirstN(levels[1], 20)) ELSE <<>>,
         asks |-> IF two THEN ApiLevels(FirstN(levels[2], 20)) ELSE <<>>,
         best_bid |-> api[2], best_ask |-> api[1]]

\* get_orderbook falling back whether or not the fallback is permitted
Manager_get_orderbook_silent(symbol, api) ==
    IF is_initialized /\ orderbook_feed # None
       /\ OrderBookFeed_get_orderbook(OBF, symbol) # None
       /\ ~OrderBookFeed_is_orderbook_stale(OBF, symbol, ORDERBOOK_STALE_THRESHOLD_SEC)
    THEN Answer("feed", OrderBook_to_dict(OrderBookFeed_get_orderbook(OBF, symbol)[1]), 0)
    ELSE Answer("api", Manager_api_get_orderbook(symbol, api), 1)

Manager_get_orderbook(symbol, api) ==
    IF is_initialized /\ orderbook_feed # None
       /\ OrderBookFeed_get_orderbook(OBF, symbol) # None
       /\ ~OrderBookFeed_is_orderbook_stale(OBF, symbol, ORDERBOOK_STALE_THRESHOLD_SEC)
    THEN Answer("feed", OrderBook_to_dict(OrderBookFeed_get_orderbook(OBF, symbol)[1]), 0)
    ELSE IF fallback_to_api
    THEN Answer("api", Manager_api_get_orderbook(symbol, api), 1)
    ELSE Answer("raise", "No orderbook data available", 0)

NoPosition(symbol) == <<<<>>, FALSE, 0, symbol, 0, 0, TRUE>>

PositionTuple(pos) ==
    <<<<Position_to_dict(pos)>>, TRUE, pos.size, pos.coin, pos.entry_price,
      pnl_percent(pos), is_long(pos)>>

Manager_get_position(symbol, api) ==
    IF is_initialized /\ user_state_feed # None
       /\ UserStateFeed_get_position(USF, symbol) # None
       /\ ~UserStateFeed_is_position_stale(USF, symbol, POSITION_STALE_THRESHOLD_SEC)
    THEN Answer("feed", PositionTuple(UserStateFeed_get_position(USF, symbol)[1]), 0)
    ELSE IF is_initialized /\ user_state_feed # None
            /\ ~UserStateFeed_has_position(USF, symbol)
    THEN Answer("absent", NoPosition(symbol), 0)
    ELSE IF fallback_to_api
    THEN Answer("api", api, 1)
    ELSE Answer("sentinel", NoPosition(symbol), 0)

\* get_balance falling back whether or not an address is passed
Manager_get_balance_unaddressed(address, api) ==
    IF is_initialized /\ user_state_feed # None
       /\ UserStateFeed_get_account_state(USF).withdrawable > 0
    THEN Answer("feed", UserStateFeed_get_account_state(USF).withdrawable, 0)
    ELSE IF fallback_to_api
    THEN Answer("api", api, 1)
    ELSE Answer("sentinel", 0, 0)

\* address is Optional: None when the caller passes no address
Manager_get_account_value(address, api) ==
    IF is_initialized /\ user_state_feed # None
       /\ UserStateFeed_get_account_state(USF).account_value > 0
    THEN Answer("feed", UserStateFeed_get_account_state(USF).account_value, 0)
    ELSE IF fallback_to_api /\ address # None
    THEN Answer("api", api, 1)
    ELSE Answer("sentinel", 0, 0)

Manager_get_balance(address, api) ==
    IF is_initialized /\ user_state_feed # None
       /\ UserStateFeed_get_account_state(USF).withdrawable > 0
    THEN Answer("feed", UserStateFeed_get_account_state(USF).withdrawable, 0)
    ELSE IF fallback_to_api /\ address # None
    THEN Answer("api", api, 1)
    ELSE Answer("sentinel", 0, 0)

Manager_get_all_positions(address, api) ==
    IF is_initialized /\ user_state_feed # None
       /\ (UserStateFeed_get_positions_list(USF) # <<>> \/ USF.initial_state_loaded)
    THEN Answer("feed", UserStateFeed_get_positions_list(USF), 0)
    ELSE IF fallback_to_api /\ address # None
    THEN Answer("api", api, 1)
    ELSE Answer("sentinel", <<>>, 0)

----------------------------------------------------------------------------
(* WebSocketDataManager: start and stop *)

Call(op, arg, ans, log) ==
    [op |-> op, arg |-> arg, src |-> ans.src, ret |-> ans.ret, calls |-> ans.calls,
     log |-> log]

Returned(value) == Answer("none", value, 0)

Reads == {"get_current_price", "get_ask_bid", "get_orderbook", "get_position",
          "get_account_value", "get_balance", "get_all_positions"}

NotARead == reads' = 0 /\ api_calls' = 0

Config == <<use_websocket, fallback_to_api, ACCOUNT_ADDRESS>>

ManagerState == <<is_initialized, ws_client, price_feed, orderbook_feed,
                  user_state_feed, transports>>

\* start(coins).  conn: whether the new transport connects before the
\* timeout; api: the answers the user-state feed's bootstrap gets.
\* The body of start() inside `with self._lock:`, which does not test
\* _is_initialized again.
Manager_start_locked(coins, conn, api) ==
    LET id  == Len(transports) + 1
        ts0 == Append(transports, ws_connect(HyperliquidWebSocket(<<>>), conn))
        p   == PriceFeed_start(PriceFeed(id), coins, FALSE, ts0)
        o   == OrderBookFeed_start(OrderBookFeed(id, DEFAULT_DEPTH_LEVELS),
                                   coins, FALSE, p.transports)
        u   == UserStateFeed_start(UserStateFeed(id, ""), FALSE, api, o.transports)
    IN  /\ Len(transports) < MaxTransports
        /\ ws_client' = id
        /\ IF ~ts0[id].is_connected
           THEN /\ transports' = ts0
                /\ UNCHANGED <<is_initialized, price_feed, orderbook_feed,
                               user_state_feed>>
                /\ last_call' = Call("start", None, Returned(FALSE), <<>>)
           ELSE /\ price_feed' = Some(p.feed)
                /\ orderbook_feed' = Some(o.feed)
                /\ user_state_feed' = Some(u.feed)
                /\ transports' = u.transports
                /\ is_initialized' = TRUE
                /\ last_call' = Call("start", None, Returned(TRUE),
                                     p.log \o o.log \o u.log)

\* start(): the two early returns, then the body under the lock
Manager_start(coins, conn, api) ==
    /\ NotARead
    /\ UNCHANGED <<now, now_ms, delivery, Config>>
    /\ IF is_initialized
       THEN /\ UNCHANGED ManagerState
            /\ last_call' = Call("start", None, Returned(TRUE), <<>>)
       ELSE IF ~use_websocket
       THEN /\ UNCHANGED ManagerState
            /\ last_call' = Call("start", None, Returned(FALSE), <<>>)
       ELSE Manager_start_locked(coins, conn, api)

\* stop() closing the transport before it stops the feeds
Manager_stop_close_first ==
    LET ts0 == IF ws_client # NoWs
               THEN [transports EXCEPT ![ws_client] = ws_close(@)] ELSE transports
        p == IF price_feed # None THEN PriceFeed_stop(PF, ts0)
             ELSE [feed |-> None, transports |-> ts0, log |-> <<>>]
        o == IF orderbook_feed # None THEN OrderBookFeed_stop(OBF, p.transports)
             ELSE [feed |-> None, transports |-> p.transports, log |-> <<>>]
        u == IF user_state_feed # None THEN UserStateFeed_stop(USF, o.transports)
             ELSE [feed |-> None, transports |-> o.transports, log |-> <<>>]
    IN  /\ NotARead
        /\ UNCHANGED <<now, now_ms, delivery, Config, ws_client>>
        /\ price_feed' = IF price_feed # None THEN Some(p.feed) ELSE None
        /\ orderbook_feed' = IF orderbook_feed # None THEN Some(o.feed) ELSE None
        /\ user_state_feed' = IF user_state_feed # None THEN Some(u.feed) ELSE None
        /\ transports' = u.transports
        /\ is_initialized' = FALSE
        /\ last_call' = Call("stop", None, Returned(None),
                             (IF ws_client # NoWs THEN LogClose(ws_client) ELSE <<>>)
                             \o p.log \o o.log \o u.log)

Manager_stop ==
    LET p == IF price_feed # None THEN PriceFeed_stop(PF, transports)
             ELSE [feed |-> None, transports |-> transports, log |-> <<>>]
        o == IF orderbook_feed # None THEN OrderBookFeed_stop(OBF, p.transports)
             ELSE [feed |-> None, transports |-> p.transports, log |-> <<>>]
        u == IF user_state_feed # None THEN UserStateFeed_stop(USF, o.transports)
             ELSE [feed |-> None, transports |-> o.transports, log |-> <<>>]
    IN  /\ NotARead
        /\ UNCHANGED <<now, now_ms, delivery, Config, ws_client>>
        /\ price_feed' = IF price_feed # None THEN Some(p.feed) ELSE None
        /\ orderbook_feed' = IF orderbook_feed # None THEN Some(o.feed) ELSE None
        /\ user_state_feed' = IF user_state_feed # None THEN Some(u.feed) ELSE None
        /\ transports' = IF ws_client # NoWs
                         THEN [u.transports EXCEPT ![ws_client] = ws_close(@)]
                         ELSE u.transports
        /\ is_initialized' = FALSE
        /\ last_call' = Call("stop", None, Returned(None),
                             p.log \o o.log \o u.log
                             \o (IF ws_client # NoWs THEN LogClose(ws_client) ELSE <<>>))

----------------------------------------------------------------------------
(* The inputs: what callers pass, what the API answers, what the transport *)
(* delivers, and the instants at which the clock is read                   *)

StartCoins == {{"BTC"}}

Address == "0xabc"

Addresses == {None, Some(Address)}

RawLevel(px, sz) == [px |-> px, sz |-> sz, n |-> 1]

\* a field float() raises ValueError on
Unparseable == <<>>

ApiPrices == {9}

ApiAskBid == {<<9, 7, << <<RawLevel(<<7>>, <<1>>)>>, <<RawLevel(<<9>>, <<1>>)>> >> >>}

ApiPositions(symbol) ==
    {<<<<[symbol |-> symbol, size |-> 1]>>, TRUE, 1, symbol, 2, 200, TRUE>>}

ApiAccountValues == {50}

ApiBalances == {40}

ApiListing == <<[symbol |-> "BTC", size |-> 1, entry_price |-> 2, pnl_percent |-> 200]>>

ApiAllPositions == {ApiListing}

BootLoaded ==
    [fail |-> "none", positions |-> ApiListing, account_value |-> 50, balance |-> 40]

BootEmpty ==
    [fail |-> "none", positions |-> <<>>, account_value |-> 0, balance |-> 0]

BootFailed ==
    [fail |-> "positions", positions |-> <<>>, account_value |-> 0, balance |-> 0]

BootHalf ==
    [fail |-> "account", positions |-> ApiListing, account_value |-> 0, balance |-> 0]

MidsMsgs == {("BTC" :> <<2>> @@ "ETH" :> <<4>>)}

BidLadders == {<<RawLevel(<<2>>, <<3>>)>>, <<RawLevel(<<0>>, <<3>>)>>}

AskLadders == {<<RawLevel(<<4>>, <<1>>)>>}

RawPosition(coin, szi, roe) ==
    [coin |-> coin, szi |-> szi, entryPx |-> <<2>>, unrealizedPnl |-> <<1>>,
     returnOnEquity |-> roe, leverage |-> <<1>>, liquidationPx |-> None,
     marginUsed |-> <<0>>]

PositionEvents ==
    {<<RawPosition("BTC", sz, <<3>>)>> : sz \in {<<1>>, <<-1>>, <<0>>}}

MarginSummary(value, withdrawable) ==
    [accountValue |-> value, withdrawable |-> withdrawable,
     totalMarginUsed |-> <<0>>, totalNtlPos |-> <<0>>]

MarginEvents == {MarginSummary(<<60>>, <<30>>), MarginSummary(<<0>>, <<0>>)}

MarketMessages ==
    {[channel |-> "allMids", data |-> m] : m \in MidsMsgs}
    \cup {[channel |-> "l2Book", data |-> [coin |-> c, bids |-> b, asks |-> a]] :
            c \in Coins, b \in BidLadders, a \in AskLadders}

UserMessages ==
    {[channel |-> "userEvents",
      data |-> [assetPositions |-> Some(e), marginSummary |-> None]] :
        e \in PositionEvents}
    \cup {[channel |-> "userEvents",
           data |-> [assetPositions |-> None, marginSummary |-> Some(m)]] :
            m \in MarginEvents}

\* the clock is read at each staleness threshold and one second after it
MarketTimes ==
    {0, ORDERBOOK_STALE_THRESHOLD_SEC, ORDERBOOK_STALE_THRESHOLD_SEC + 1,
     PRICE_STALE_THRESHOLD_SEC, PRICE_STALE_THRESHOLD_SEC + 1}

UserTimes == {0, POSITION_STALE_THRESHOLD_SEC, POSITION_STALE_THRESHOLD_SEC + 1}

----------------------------------------------------------------------------
(* The operations *)

Start(boots) ==
    \E coins \in StartCoins, conn \in BOOLEAN, api \in boots :
        Manager_start(coins, conn, api)

Stop == Manager_stop

\* a read leaves the manager and the feeds as they are; count tells whether
\* the step is counted in reads and api_calls
Read(op, arg, ans, count) ==
    /\ IF count
       THEN /\ reads < MaxReads
            /\ reads' = reads + 1
            /\ api_calls' = api_calls + ans.calls
       ELSE UNCHANGED <<reads, api_calls>>
    /\ last_call' = Call(op, arg, ans, <<>>)
    /\ UNCHANGED <<now, now_ms, delivery, Config, ManagerState>>

GetCurrentPrice(count) ==
    \E symbol \in Coins, api \in ApiPrices :
        Read("get_current_price", symbol, Manager_get_current_price(symbol, api), count)

GetAskBid(count) ==
    \E symbol \in Coins, api \in ApiAskBid :
        Read("get_ask_bid", symbol, Manager_get_ask_bid(symbol, api), count)

GetOrderbook(count) ==
    \E symbol \in Coins, api \in ApiAskBid :
        Read("get_orderbook", symbol, Manager_get_orderbook(symbol, api), count)

GetPosition(count) ==
    \E symbol \in Coins : \E api \in ApiPositions(symbol) :
        Read("get_position", symbol, Manager_get_position(symbol, api), count)

GetAccountValue(count) ==
    \E address \in Addresses, api \in ApiAccountValues :
        Read("get_account_value", address, Manager_get_account_value(address, api), count)

GetBalance(count) ==
    \E address \in Addresses, api \in ApiBalances :
        Read("get_balance", address, Manager_get_balance(address, api), count)

GetAllPositions(count) ==
    \E address \in Addresses, api \in ApiAllPositions :
        Read("get_all_positions", address, Manager_get_all_positions(address, api), count)

\* stop() called on one of the manager's feeds
PriceFeedStop ==
    /\ price_feed # None
    /\ LET r == PriceFeed_stop(PF, transports)
       IN  /\ price_feed' = Some(r.feed)
           /\ transports' = r.transports
           /\ last_call' = Call("PriceFeed.stop", None, Returned(None), r.log)
    /\ NotARead
    /\ UNCHANGED <<now, now_ms, delivery, Config, is_initialized, ws_client, orderbook_feed, user_state_feed>>

OrderBookFeedStop ==
    /\ orderbook_feed # None
    /\ LET r == OrderBookFeed_stop(OBF, transports)
       IN  /\ orderbook_feed' = Some(r.feed)
           /\ transports' = r.transports
           /\ last_call' = Call("OrderBookFeed.stop", None, Returned(None), r.log)
    /\ NotARead
    /\ UNCHANGED <<now, now_ms, delivery, Config, is_initialized, ws_client, price_feed, user_state_feed>>

UserStateFeedStop ==
    /\ user_state_feed # None
    /\ LET r == UserStateFeed_stop(USF, transports)
       IN  /\ user_state_feed' = Some(r.feed)
           /\ transports' = r.transports
           /\ last_call' = Call("UserStateFeed.stop", None, Returned(None), r.log)
    /\ NotARead
    /\ UNCHANGED <<now, now_ms, delivery, Config, is_initialized, ws_client, price_feed, orderbook_feed>>

\* the feeds are the manager's own: it created them, or has created none yet
ManagerFeeds == price_feed = None \/ ws_client # NoWs

\* a start() that creates a transport, or attaches a handler to one, has room
StartRoom(f, ts) ==
    f.is_running
    \/ (f.owns_ws /\ Len(ts) < MaxTransports)
    \/ (~f.owns_ws /\ Len(ts[f.ws].on_message) < MaxChain)

\* start() called on one of the feeds
PriceFeedStartFor(coinsets) ==
    /\ price_feed # None
    /\ StartRoom(PF, transports)
    /\ \E coins \in coinsets, conn \in BOOLEAN :
          LET r == PriceFeed_start(PF, coins, conn, transports)
          IN  /\ price_feed' = Some(r.feed)
              /\ transports' = r.transports
              /\ last_call' = Call("PriceFeed.start", None, Returned(r.ret), r.log)
    /\ NotARead
    /\ UNCHANGED <<now, now_ms, delivery, Config, is_initialized, ws_client,
                   orderbook_feed, user_state_feed>>

PriceFeedStart == PriceFeedStartFor(StartCoins)

OrderBookFeedStart ==
    /\ orderbook_feed # None
    /\ StartRoom(OBF, transports)
    /\ \E coins \in StartCoins, conn \in BOOLEAN :
          LET r == OrderBookFeed_start(OBF, coins, conn, transports)
          IN  /\ orderbook_feed' = Some(r.feed)
              /\ transports' = r.transports
              /\ last_call' = Call("OrderBookFeed.start", None, Returned(r.ret), r.log)
    /\ NotARead
    /\ UNCHANGED <<now, now_ms, delivery, Config, is_initialized, ws_client,
                   price_feed, user_state_feed>>

UserStateFeedStart(boots) ==
    /\ user_state_feed # None
    /\ StartRoom(USF, transports)
    /\ \E conn \in BOOLEAN, api \in boots :
          LET r == UserStateFeed_start(USF, conn, api, transports)
          IN  /\ user_state_feed' = Some(r.feed)
              /\ transports' = r.transports
              /\ last_call' = Call("UserStateFeed.start", None, Returned(r.ret), r.log)
    /\ NotARead
    /\ UNCHANGED <<now, now_ms, delivery, Config, is_initialized, ws_client,
                   price_feed, orderbook_feed>>

\* the subscription a message is delivered under
MsgChan(msg) ==
    IF msg.channel = "allMids" THEN ChanAllMids
    ELSE IF msg.channel = "l2Book" THEN ChanL2Book(msg.data.coin)
    ELSE IF msg.channel = "userFills" THEN ChanUserFills(USF.user_address)
    ELSE IF msg.channel = "orderUpdates" THEN ChanOrderUpdates(USF.user_address)
    ELSE ChanUserEvents(USF.user_address)

\* The transport hands msg to its callback: the attached handlers run in
\* chain order, each before the one attached before it; a handler that
\* raises ends the chain.  st = [pf, obf, usf, raised].
RECURSIVE Dispatch(_, _, _)
Dispatch(chain, msg, st) ==
    IF chain = <<>> \/ st.raised THEN st
    ELSE LET h == chain[1]
             r == IF h = "price" THEN PriceFeed_handle_ws_message(st.pf, msg)
                  ELSE IF h = "orderbook"
                  THEN OrderBookFeed_handle_ws_message(st.obf, msg)
                  ELSE UserStateFeed_handle_ws_message(st.usf, msg)
         IN  Dispatch(Tail(chain), msg,
                      IF h = "price" THEN [st EXCEPT !.pf = r.feed, !.raised = r.raised]
                      ELSE IF h = "orderbook"
                      THEN [st EXCEPT !.obf = r.feed, !.raised = r.raised]
                      ELSE [st EXCEPT !.usf = r.feed, !.raised = r.raised])

\* the order-book messages the feed has applied for coin
Delivered(f, coin) ==
    IF f.orderbooks[coin] = None THEN 0 ELSE f.orderbooks[coin][1].sequence

\* transport t delivers one of msgs, under a subscription it holds; at most
\* n order-book messages are applied per instrument
DeliverUpTo(t, msgs, n) ==
    \E msg \in msgs :
        /\ price_feed # None /\ orderbook_feed # None /\ user_state_feed # None
        /\ delivery = None
        /\ transports[t].is_connected
        /\ MsgChan(msg) \in transports[t].subs
        /\ msg.channel = "l2Book" => Delivered(OBF, msg.data.coin) < n
        /\ LET st == Dispatch(transports[t].on_message, msg,
                              [pf |-> PF, obf |-> OBF, usf |-> USF, raised |-> FALSE])
           IN  /\ price_feed' = Some(st.pf)
               /\ orderbook_feed' = Some(st.obf)
               /\ user_state_feed' = Some(st.usf)
               /\ last_call' = Call("deliver", msg,
                                    Answer(IF st.raised THEN "raise" ELSE "none", None, 0),
                                    <<>>)
        /\ NotARead
        /\ UNCHANGED <<now, now_ms, delivery, Config, is_initialized, ws_client, transports>>

DeliverOn(t, msgs) == DeliverUpTo(t, msgs, MaxSeq)

\* the manager's shared transport delivers one of msgs
Deliver(msgs) == ws_client # NoWs /\ DeliverOn(ws_client, msgs)

\* any transport delivers one of msgs
DeliverAny(msgs) == \E t \in DOMAIN transports : DeliverOn(t, msgs)

Tick(points) ==
    /\ \E t \in points : t > now /\ now' = t
    /\ NotARead
    /\ last_call' = Call("tick", None, Returned(None), <<>>)
    /\ UNCHANGED <<now_ms, delivery, Config, ManagerState>>

Constructed ==
    /\ now = 0
    /\ now_ms = 0
    /\ delivery = None
    /\ is_initialized = FALSE
    /\ ws_client = NoWs
    /\ price_feed = None
    /\ orderbook_feed = None
    /\ user_state_feed = None
    /\ transports = <<>>
    /\ last_call = Call("init", None, Returned(None), <<>>)
    /\ reads = 0
    /\ api_calls = 0

----------------------------------------------------------------------------
(* Spec: the manager over the price and order-book feeds *)

Init ==
    /\ Constructed
    /\ use_websocket \in BOOLEAN
    /\ fallback_to_api \in BOOLEAN
    /\ ACCOUNT_ADDRESS = Address

Next ==
    \/ Start({BootLoaded})
    \/ Stop
    \/ GetCurrentPrice(FALSE)
    \/ GetAskBid(FALSE)
    \/ GetOrderbook(FALSE)
    \/ Deliver(MarketMessages)
    \/ Tick(MarketTimes)

Spec == Init /\ [][Next]_vars

----------------------------------------------------------------------------
(* SpecUser: the manager over the user-state feed *)

InitUser ==
    /\ Constructed
    /\ use_websocket \in BOOLEAN
    /\ fallback_to_api \in BOOLEAN
    /\ ACCOUNT_ADDRESS \in {"", Address}

NextUser ==
    \/ Start({BootLoaded, BootEmpty, BootFailed, BootHalf})
    \/ Stop
    \/ GetPosition(FALSE)
    \/ GetAccountValue(FALSE)
    \/ GetBalance(FALSE)
    \/ GetAllPositions(FALSE)
    \/ Deliver(UserMessages)
    \/ Tick(UserTimes)

SpecUser == InitUser /\ [][NextUser]_vars

----------------------------------------------------------------------------
(* SpecFallback: WebSocket mode disabled by configuration; reads counted *)

InitFallback ==
    /\ Constructed
    /\ use_websocket = FALSE
    /\ fallback_to_api \in BOOLEAN
    /\ ACCOUNT_ADDRESS \in {"", Address}

NextFallback ==
    \/ Start({BootLoaded})
    \/ Stop
    \/ GetCurrentPrice(TRUE)
    \/ GetAskBid(TRUE)
    \/ GetOrderbook(TRUE)
    \/ GetPosition(TRUE)
    \/ GetAccountValue(TRUE)
    \/ GetBalance(TRUE)
    \/ GetAllPositions(TRUE)
    \/ Tick(UserTimes)

SpecFallback == InitFallback /\ [][NextFallback]_vars

----------------------------------------------------------------------------
(* SpecLifecycle: start and stop of the manager and of its feeds, with     *)
(* every read                                                              *)

LifecycleMessages ==
    {[channel |-> "allMids", data |-> m] : m \in MidsMsgs}

LifecycleTimes == {0, 1}

NextLifecycle ==
    \/ Start({BootLoaded, BootFailed})
    \/ Stop
    \/ PriceFeedStop
    \/ OrderBookFeedStop
    \/ UserStateFeedStop
    \/ GetCurrentPrice(FALSE)
    \/ GetAskBid(FALSE)
    \/ GetOrderbook(FALSE)
    \/ GetPosition(FALSE)
    \/ GetAccountValue(FALSE)
    \/ GetBalance(FALSE)
    \/ GetAllPositions(FALSE)
    \/ Deliver(LifecycleMessages)
    \/ Tick(LifecycleTimes)

SpecLifecycle == InitUser /\ [][NextLifecycle]_vars

----------------------------------------------------------------------------
(* SpecFeeds: start and stop of the feeds, each on a transport of its own, *)
(* or all on one transport of the application, or as the manager's feeds   *)

\* the feeds constructed without a transport: each creates its own in start()
OwnFeeds ==
    /\ transports = <<>>
    /\ price_feed = Some(PriceFeed(NoWs))
    /\ orderbook_feed = Some(OrderBookFeed(NoWs, DEFAULT_DEPTH_LEVELS))
    /\ user_state_feed = Some(UserStateFeed(NoWs, ""))

\* the feeds constructed on one transport the application made and keeps
SharedFeeds(conn) ==
    /\ transports = <<ws_connect(HyperliquidWebSocket(<<>>), conn)>>
    /\ price_feed = Some(PriceFeed(1))
    /\ orderbook_feed = Some(OrderBookFeed(1, DEFAULT_DEPTH_LEVELS))
    /\ user_state_feed = Some(UserStateFeed(1, ""))

\* no manager operation has run
NoManager ==
    /\ now = 0 /\ now_ms = 0 /\ delivery = None
    /\ is_initialized = FALSE /\ ws_client = NoWs
    /\ last_call = Call("init", None, Returned(None), <<>>)
    /\ reads = 0 /\ api_calls = 0

\* the market messages, and an order-book message whose best bid has a price
\* that does not parse
FeedMessages ==
    MarketMessages
    \cup {[channel |-> "l2Book",
           data |-> [coin |-> "BTC", bids |-> <<RawLevel(Unparseable, <<3>>)>>,
                     asks |-> <<RawLevel(<<4>>, <<1>>)>>]]}

InitFeeds ==
    /\ use_websocket = TRUE
    /\ fallback_to_api = TRUE
    /\ ACCOUNT_ADDRESS = Address
    /\ \/ Constructed
       \/ NoManager /\ OwnFeeds
       \/ NoManager /\ \E conn \in BOOLEAN : SharedFeeds(conn)

NextFeeds ==
    \/ ManagerFeeds /\ Start({BootLoaded})
    \/ ManagerFeeds /\ Stop
    \/ PriceFeedStart
    \/ OrderBookFeedStart
    \/ UserStateFeedStart({BootLoaded})
    \/ PriceFeedStop
    \/ OrderBookFeedStop
    \/ UserStateFeedStop
    \/ DeliverAny(FeedMessages)

SpecFeeds == InitFeeds /\ [][NextFeeds]_vars

----------------------------------------------------------------------------
(* SpecBook: an order-book feed of two levels per side on a transport of   *)
(* the application, fed ladders that are longer than its depth, hold       *)
(* levels that do not parse, or are empty, at the readings of the          *)
(* millisecond clock that the throttle separates                           *)

BookDepthLevels == 2

BookCoins == {{"BTC", "ETH"}}

BookBidLadders ==
    {<<RawLevel(<<3>>, <<30>>)>>,
     <<RawLevel(<<3>>, <<1>>), RawLevel(<<2>>, <<1>>), RawLevel(<<1>>, <<1>>)>>,
     <<RawLevel(Unparseable, <<1>>), RawLevel(<<3>>, <<2>>), RawLevel(<<2>>, <<1>>)>>,
     <<>>}

BookAskLadders ==
    {<<RawLevel(<<4>>, <<10>>)>>,
     <<RawLevel(<<4>>, <<1>>), RawLevel(<<5>>, Unparseable), RawLevel(<<6>>, <<1>>)>>,
     <<>>}

BookMessages ==
    {[channel |-> "l2Book", data |-> [coin |-> "BTC", bids |-> b, asks |-> a]] :
        b \in BookBidLadders, a \in BookAskLadders}
    \cup {[channel |-> "l2Book",
           data |-> [coin |-> "ETH", bids |-> <<RawLevel(<<3>>, <<1>>)>>,
                     asks |-> <<RawLevel(<<4>>, <<1>>)>>]]}

BookTimes == {0, 10, 100}

\* time.time() * 1000 reads later
TickMs ==
    /\ \E t \in BookTimes : t > now_ms /\ now_ms' = t
    /\ last_call' = Call("tick", None, Returned(None), <<>>)
    /\ NotARead
    /\ UNCHANGED <<now, delivery, Config, ManagerState>>

\* the application reads an instrument's depth figures from the feed
BookRead ==
    /\ orderbook_feed # None
    /\ \E coin \in Coins :
          \/ last_call' = Call("OrderBookFeed.get_imbalance", coin,
                               Returned(OrderBookFeed_get_imbalance(OBF, coin)), <<>>)
          \/ last_call' = Call("OrderBookFeed.get_depth", coin,
                               Returned(OrderBookFeed_get_depth(OBF, coin)), <<>>)
          \/ /\ OrderBookFeed_get_orderbook(OBF, coin) # None
             /\ last_call' = Call("OrderBook.to_dict", coin,
                  Returned(OrderBook_to_dict(OrderBookFeed_get_orderbook(OBF, coin)[1])),
                  <<>>)
    /\ NotARead
    /\ UNCHANGED <<now, now_ms, delivery, Config, ManagerState>>

InitBook ==
    /\ use_websocket = TRUE
    /\ fallback_to_api = TRUE
    /\ ACCOUNT_ADDRESS = Address
    /\ NoManager
    /\ transports = <<ws_connect(HyperliquidWebSocket(<<>>), TRUE)>>
    /\ price_feed = Some(PriceFeed(1))
    /\ orderbook_feed = Some(OrderBookFeed(1, BookDepthLevels))
    /\ user_state_feed = Some(UserStateFeed(1, ""))

\* start() of the order-book feed for both instruments, the transport being
\* connected
BookFeedStart ==
    /\ StartRoom(OBF, transports)
    /\ delivery = None
    /\ \E coins \in BookCoins :
          LET r == OrderBookFeed_start(OBF, coins, TRUE, transports)
          IN  /\ orderbook_feed' = Some(r.feed)
              /\ transports' = r.transports
              /\ last_call' = Call("OrderBookFeed.start", None, Returned(r.ret), r.log)
    /\ NotARead
    /\ UNCHANGED <<now, now_ms, delivery, Config, is_initialized, ws_client,
                   price_feed, user_state_feed>>

NextBook ==
    \/ BookFeedStart
    \/ OrderBookFeedStop
    \/ DeliverUpTo(1, BookMessages, MaxBookSeq)
    \/ TickMs
    \/ BookRead

SpecBook == InitBook /\ [][NextBook]_vars

----------------------------------------------------------------------------
(* SpecRace: the delivery thread applying an order-book message statement  *)
(* by statement while a reader thread reads the fields of the OrderBook    *)
(* object that get_orderbook() handed it.  delivery holds the message the  *)
(* delivery thread is applying, from the assignment of bids on, while it   *)
(* holds the feed's lock; last_call holds what the reader has read so far. *)

RaceMessages ==
    {[channel |-> "l2Book",
      data |-> [coin |-> "BTC", bids |-> <<RawLevel(<<2>>, <<1>>)>>,
                asks |-> <<RawLevel(<<4>>, <<1>>)>>]],
     [channel |-> "l2Book",
      data |-> [coin |-> "BTC", bids |-> <<RawLevel(<<3>>, <<1>>)>>,
                asks |-> <<RawLevel(<<5>>, <<1>>)>>]]}

\* _process_l2_book up to `self._orderbooks[coin].bids = bids`, lock held
ApplyBids ==
    /\ delivery = None
    /\ OBF.is_running
    /\ \E msg \in RaceMessages :
          /\ MsgChan(msg) \in transports[OBF.ws].subs
          /\ Delivered(OBF, msg.data.coin) < MaxBookSeq
          /\ orderbook_feed' =
                Some([OBF EXCEPT !.orderbooks[msg.data.coin][1].bids =
                        ParseLevels(FirstN(msg.data.bids, OBF.depth_levels))])
          /\ delivery' = Some(msg.data)
    /\ UNCHANGED <<now, now_ms, Config, is_initialized, ws_client, price_feed,
                   user_state_feed, transports, last_call, reads, api_calls>>

\* the rest of _process_l2_book: asks, last_update and sequence assigned, the
\* lock released, the listeners notified
ApplyRest ==
    /\ delivery # None
    /\ orderbook_feed' = Some(OrderBookFeed_process_l2_book(OBF, delivery[1]))
    /\ delivery' = None
    /\ UNCHANGED <<now, now_ms, Config, is_initialized, ws_client, price_feed,
                   user_state_feed, transports, last_call, reads, api_calls>>

\* get_orderbook(coin): under the lock, the reader is handed the feed's own
\* OrderBook object
GetOrderbookObject ==
    /\ delivery = None
    /\ \E coin \in Coins :
          /\ OrderBookFeed_get_orderbook(OBF, coin) # None
          /\ last_call' = Call("OrderBookFeed.get_orderbook", coin, Returned(None), <<>>)
    /\ NotARead
    /\ UNCHANGED <<now, now_ms, delivery, Config, ManagerState>>

\* to_dict() on that object, no lock held: self.bids is read
ToDictBids ==
    /\ last_call.op = "OrderBookFeed.get_orderbook"
    /\ last_call' = Call("OrderBook.bids", last_call.arg,
                         Returned(OBF.orderbooks[last_call.arg][1].bids), <<>>)
    /\ NotARead
    /\ UNCHANGED <<now, now_ms, delivery, Config, ManagerState>>

\* to_dict() goes on: self.asks is read, and the dictionary returned
ToDictAsks ==
    /\ last_call.op = "OrderBook.bids"
    /\ last_call' = Call("OrderBook.to_dict", last_call.arg,
                         Returned([bids |-> last_call.ret,
                                   asks |-> OBF.orderbooks[last_call.arg][1].asks]),
                         <<>>)
    /\ NotARead
    /\ UNCHANGED <<now, now_ms, delivery, Config, ManagerState>>

NextRace ==
    \/ BookFeedStart
    \/ ApplyBids
    \/ ApplyRest
    \/ GetOrderbookObject
    \/ ToDictBids
    \/ ToDictAsks

SpecRace == InitBook /\ [][NextRace]_vars

----------------------------------------------------------------------------
(* SpecListeners: listeners registered with the feeds of a started manager, *)
(* some of which raise, and every kind of message delivered                 *)

ListenerKinds == {"price", "orderbook", "position", "fill", "account", "order"}

RawFill(oid, sz) ==
    [coin |-> "BTC", side |-> "B", sz |-> sz, px |-> <<2>>, fee |-> <<0>>,
     oid |-> oid, closedPnl |-> <<0>>]

RawOrderUpdate(oid, sz) ==
    [order |-> [oid |-> oid, coin |-> "BTC", side |-> "A", sz |-> sz,
                limitPx |-> <<4>>, filled |-> <<0>>],
     status |-> "open"]

\* the market messages of one instrument; position events that open and
\* close; a margin summary; fills and order updates, one of each not parsing
ListenerMarketMessages ==
    {[channel |-> "allMids", data |-> m] : m \in MidsMsgs}
    \cup {[channel |-> "l2Book",
            data |-> [coin |-> "BTC", bids |-> <<RawLevel(<<2>>, <<3>>)>>,
                      asks |-> <<RawLevel(<<4>>, <<1>>)>>]]}

ListenerUserEvents ==
    {[channel |-> "userEvents",
            data |-> [assetPositions |-> Some(e), marginSummary |-> None]] :
              e \in {<<RawPosition("BTC", <<1>>, <<3>>)>>,
                     <<RawPosition("BTC", <<0>>, <<3>>)>>}}
    \cup {[channel |-> "userEvents",
            data |-> [assetPositions |-> None,
                      marginSummary |-> Some(MarginSummary(<<60>>, <<30>>))]]}

ListenerFills ==
    {[channel |-> "userFills",
      data |-> <<RawFill(1, <<1>>), RawFill(2, Unparseable)>>]}

ListenerOrderUpdates ==
    {[channel |-> "orderUpdates",
      data |-> <<RawOrderUpdate(1, Unparseable), RawOrderUpdate(2, <<1>>)>>]}

AllListeners == PF.listeners \o OBF.listeners \o USF.listeners

\* add_price_listener, add_orderbook_listener, add_position_listener,
\* add_fill_listener, add_account_listener, add_order_listener of the feeds;
\* the listeners of one behaviour are registered for one kind of event
AddListener ==
    \E kind \in ListenerKinds, raises \in BOOLEAN :
        /\ price_feed # None /\ orderbook_feed # None /\ user_state_feed # None
        /\ Len(AllListeners) < MaxListeners
        /\ \A i \in 1..Len(AllListeners) : AllListeners[i].kind = kind
        /\ price_feed' = IF kind = "price"
                         THEN Some(add_listener(PF, kind, raises)) ELSE price_feed
        /\ orderbook_feed' = IF kind = "orderbook"
                             THEN Some(add_listener(OBF, kind, raises))
                             ELSE orderbook_feed
        /\ user_state_feed' = IF kind \notin {"price", "orderbook"}
                              THEN Some(add_listener(USF, kind, raises))
                              ELSE user_state_feed
        /\ last_call' = Call("add_listener", kind, Returned(None), <<>>)
        /\ NotARead
        /\ UNCHANGED <<now, now_ms, delivery, Config, is_initialized, ws_client,
                       transports>>

\* no listener has been called MaxHeard times, nor are MaxHeard fills buffered
ListenerRoom ==
    /\ price_feed # None /\ orderbook_feed # None /\ user_state_feed # None
    /\ \A i \in 1..Len(AllListeners) : Len(AllListeners[i].heard) < MaxHeard
    /\ Len(USF.recent_fills) < MaxHeard

InitListeners ==
    /\ Constructed
    /\ use_websocket = TRUE
    /\ fallback_to_api = TRUE
    /\ ACCOUNT_ADDRESS = Address

NextListeners ==
    \/ ~is_initialized /\ Start({BootLoaded})
    \/ AddListener
    \/ ListenerRoom /\ Deliver(ListenerMarketMessages)
    \/ ListenerRoom /\ Deliver(ListenerUserEvents)
    \/ ListenerRoom /\ Deliver(ListenerFills)
    \/ ListenerRoom /\ Deliver(ListenerOrderUpdates)

SpecListeners == InitListeners /\ [][NextListeners]_vars

----------------------------------------------------------------------------
(* SpecFills: a user-state feed on a connected transport of the application *)
(* that is sent fills, the well-formed ones numbered in the order they are  *)
(* sent, and is asked for its recent fills                                  *)

\* the number of the well-formed fill sent last
FillsSent(f) ==
    IF f.recent_fills = <<>> THEN 0 ELSE f.recent_fills[1].order_id[2]

\* the next fill alone, after a fill that does not parse, and with its successor
FillMessages(n) ==
    {[channel |-> "userFills", data |-> d] :
        d \in {<<RawFill(n + 1, <<1>>)>>,
               <<RawFill(0, Unparseable), RawFill(n + 1, <<1>>)>>,
               <<RawFill(n + 1, <<1>>), RawFill(n + 2, <<1>>)>>}}

FillLimits == {0, 10, MAX_FILLS, MAX_FILLS + 1}

DeliverFills ==
    /\ user_state_feed # None
    /\ FillsSent(USF) < MaxFillsSent
    /\ DeliverOn(1, FillMessages(FillsSent(USF)))

\* get_recent_fills(limit) of the feed
GetRecentFills ==
    /\ user_state_feed # None
    /\ \E limit \in FillLimits :
          last_call' = Call("UserStateFeed.get_recent_fills", limit,
                            Returned(UserStateFeed_get_recent_fills(USF, limit)), <<>>)
    /\ NotARead
    /\ UNCHANGED <<now, now_ms, delivery, Config, ManagerState>>

InitFills ==
    /\ use_websocket = TRUE
    /\ fallback_to_api = TRUE
    /\ ACCOUNT_ADDRESS = Address
    /\ NoManager /\ SharedFeeds(TRUE)

NextFills ==
    \/ UserStateFeedStart({BootLoaded})
    \/ DeliverFills
    \/ GetRecentFills

SpecFills == InitFills /\ [][NextFills]_vars

----------------------------------------------------------------------------
(* SpecQueries: a price feed started with and without a restriction to      *)
(* monitored instruments, and an order-book feed, on a connected transport  *)
(* of the application; the market messages; every query of the two feeds    *)

QueryCoins == {{}, {"BTC"}}

QueryMessages ==
    {[channel |-> "allMids", data |-> m] :
        m \in MidsMsgs \cup {("ETH" :> <<4>>), ("BTC" :> Unparseable)}}
    \cup {[channel |-> "l2Book",
            data |-> [coin |-> "BTC", bids |-> <<RawLevel(<<2>>, <<3>>)>>,
                      asks |-> <<RawLevel(<<4>>, <<1>>)>>]]}

PriceQueries ==
    {"PriceFeed.get_price", "PriceFeed.get_bid", "PriceFeed.get_ask",
     "PriceFeed.get_bid_ask", "PriceFeed.get_ticker", "PriceFeed.is_price_stale"}

BookQueries ==
    {"OrderBookFeed.get_orderbook", "OrderBookFeed.get_best_bid",
     "OrderBookFeed.get_best_ask", "OrderBookFeed.get_spread",
     "OrderBookFeed.get_depth", "OrderBookFeed.is_orderbook_stale"}

\* the answer of a query of a feed with its default arguments
QueryAnswer(q, coin) ==
    CASE q = "PriceFeed.get_price" -> PriceFeed_get_price(PF, coin)
      [] q = "PriceFeed.get_bid" -> PriceFeed_get_bid(PF, coin)
      [] q = "PriceFeed.get_ask" -> PriceFeed_get_ask(PF, coin)
      [] q = "PriceFeed.get_bid_ask" -> PriceFeed_get_bid_ask(PF, coin)
      [] q = "PriceFeed.get_ticker" -> PriceFeed_get_ticker(PF, coin)
      [] q = "PriceFeed.is_price_stale" -> PriceFeed_is_price_stale(PF, coin, 60)
      [] q = "OrderBookFeed.get_orderbook" -> OrderBookFeed_get_orderbook(OBF, coin)
      [] q = "OrderBookFeed.get_best_bid" -> OrderBookFeed_get_best_bid(OBF, coin)
      [] q = "OrderBookFeed.get_best_ask" -> OrderBookFeed_get_best_ask(OBF, coin)
      [] q = "OrderBookFeed.get_spread" -> OrderBookFeed_get_spread(OBF, coin)
      [] q = "OrderBookFeed.get_depth" -> OrderBookFeed_get_depth(OBF, coin)
      [] q = "OrderBookFeed.is_orderbook_stale" ->
            OrderBookFeed_is_orderbook_stale(OBF, coin, 5)

FeedQuery ==
    /\ price_feed # None /\ orderbook_feed # None
    /\ \E q \in PriceQueries \cup BookQueries, coin \in Coins :
          last_call' = Call(q, coin, Returned(QueryAnswer(q, coin)), <<>>)
    /\ NotARead
    /\ UNCHANGED <<now, now_ms, delivery, Config, ManagerState>>

InitQueries ==
    /\ use_websocket = TRUE
    /\ fallback_to_api = TRUE
    /\ ACCOUNT_ADDRESS = Address
    /\ NoManager /\ SharedFeeds(TRUE)

NextQueries ==
    \/ PriceFeedStartFor(QueryCoins)
    \/ PriceFeedStop
    \/ OrderBookFeedStart
    \/ DeliverOn(1, QueryMessages)
    \/ FeedQuery

SpecQueries == InitQueries /\ [][NextQueries]_vars

----------------------------------------------------------------------------
(* SpecStale: the feeds of a started manager, sent a ticker, a book and a   *)
(* position at some of the instants the clock is read at, and asked whether *)
(* what they hold is stale, from one second before a threshold to one       *)
(* second after it                                                          *)

StaleThresholds == {ORDERBOOK_STALE_THRESHOLD_SEC, PRICE_STALE_THRESHOLD_SEC}

StaleTimes ==
    {0, 1, ORDERBOOK_STALE_THRESHOLD_SEC, PRICE_STALE_THRESHOLD_SEC - 1,
     PRICE_STALE_THRESHOLD_SEC, PRICE_STALE_THRESHOLD_SEC + 1}

StaleMessages ==
    {[channel |-> "allMids", data |-> m] : m \in MidsMsgs}
    \cup {[channel |-> "l2Book",
            data |-> [coin |-> "BTC", bids |-> <<RawLevel(<<2>>, <<3>>)>>,
                      asks |-> <<RawLevel(<<4>>, <<1>>)>>]]}
    \cup {[channel |-> "userEvents",
            data |-> [assetPositions |-> Some(<<RawPosition("BTC", <<1>>, <<3>>)>>),
                      marginSummary |-> None]]}

StaleQueries ==
    {"PriceFeed.is_price_stale", "OrderBookFeed.is_orderbook_stale",
     "UserStateFeed.is_position_stale"}

\* is_price_stale, is_orderbook_stale, is_position_stale(coin, max_age_seconds)
StaleQuery ==
    /\ price_feed # None /\ orderbook_feed # None /\ user_state_feed # None
    /\ \E coin \in Coins, max_age \in StaleThresholds :
          \/ last_call' = Call("PriceFeed.is_price_stale",
                               [coin |-> coin, max_age_seconds |-> max_age],
                               Returned(PriceFeed_is_price_stale(PF, coin, max_age)), <<>>)
          \/ last_call' = Call("OrderBookFeed.is_orderbook_stale",
                               [coin |-> coin, max_age_seconds |-> max_age],
                               Returned(OrderBookFeed_is_orderbook_stale(OBF, coin, max_age)),
                               <<>>)
          \/ last_call' = Call("UserStateFeed.is_position_stale",
                               [coin |-> coin, max_age_seconds |-> max_age],
                               Returned(UserStateFeed_is_position_stale(USF, coin, max_age)),
                               <<>>)
    /\ NotARead
    /\ UNCHANGED <<now, now_ms, delivery, Config, ManagerState>>

NextStale ==
    \/ ~is_initialized /\ Start({BootLoaded})
    \/ Deliver(StaleMessages)
    \/ Tick(StaleTimes)
    \/ StaleQuery

SpecStale == InitListeners /\ [][NextStale]_vars

----------------------------------------------------------------------------
(* SpecSource: the manager's price reads and the data source reported for   *)
(* them, while the reconnecting transport loses its connection and the      *)
(* cached prices age                                                        *)

SourceMessages == {[channel |-> "allMids", data |-> m] : m \in MidsMsgs}

SourceTimes == {0, PRICE_STALE_THRESHOLD_SEC, PRICE_STALE_THRESHOLD_SEC + 1}

\* the transport loses its connection
ConnectionLost ==
    /\ \E t \in DOMAIN transports :
          /\ transports[t].is_connected
          /\ transports' = [transports EXCEPT ![t].is_connected = FALSE]
    /\ last_call' = Call("disconnect", None, Returned(None), <<>>)
    /\ NotARead
    /\ UNCHANGED <<now, now_ms, delivery, Config, is_initialized, ws_client,
                   price_feed, orderbook_feed, user_state_feed>>

GetDataSource ==
    \E symbol \in Coins :
        Read("get_data_source", symbol, Returned(get_data_source(symbol)), FALSE)

NextSource ==
    \/ Start({BootLoaded})
    \/ Stop
    \/ Deliver(SourceMessages)
    \/ Tick(SourceTimes)
    \/ ConnectionLost
    \/ GetCurrentPrice(FALSE)
    \/ GetDataSource

SpecSource == Init /\ [][NextSource]_vars

----------------------------------------------------------------------------
(* SpecPositions: a manager that is started, stopped and started again, on  *)
(* an account whose position listing names an instrument with size 0; the  *)
(* application registers listeners through the manager, position events of *)
(* two instruments, margin summaries and fills arrive                      *)

\* get_all_positions answering one entry of size 0
BootFlat ==
    [fail |-> "none",
     positions |-> <<[symbol |-> "ETH", size |-> 0, entry_price |-> 2, pnl_percent |-> 0]>>,
     account_value |-> 50, balance |-> 40]

PortfolioEvents ==
    {[channel |-> "userEvents",
      data |-> [assetPositions |-> Some(e), marginSummary |-> None]] :
        e \in {<<RawPosition("BTC", <<2>>, <<3>>)>>,
               <<RawPosition("ETH", <<1>>, <<3>>)>>,
               <<RawPosition("ETH", <<0>>, <<3>>)>>}}
    \cup {[channel |-> "userEvents",
           data |-> [assetPositions |-> None,
                     marginSummary |-> Some(MarginSummary(<<60>>, <<30>>))]]}

PortfolioFills ==
    {[channel |-> "userFills", data |-> <<RawFill(1, <<1>>)>>]}

ManagerListenerKinds == {"position", "fill", "account"}

\* add_position_listener, add_fill_listener, add_account_listener of the
\* manager: the callback is handed to the user-state feed if there is one
Manager_add_listener(kind) ==
    /\ user_state_feed' = IF user_state_feed # None
                          THEN Some(add_listener(USF, kind, FALSE))
                          ELSE user_state_feed
    /\ last_call' = Call("Manager.add_listener", kind, Returned(None), <<>>)
    /\ NotARead
    /\ UNCHANGED <<now, now_ms, delivery, Config, is_initialized, ws_client,
                   price_feed, orderbook_feed, transports>>

ManagerAddListener ==
    \E kind \in ManagerListenerKinds :
        /\ user_state_feed # None => Len(USF.listeners) < MaxListeners
        /\ user_state_feed # None =>
              \A i \in 1..Len(USF.listeners) : USF.listeners[i].kind = kind
        /\ last_call.op # "Manager.add_listener"
        /\ Manager_add_listener(kind)

\* the clock is read at the start and one second later
PortfolioTimes == {0, 1}

NextPositions ==
    \/ ~is_initialized /\ Start({BootLoaded, BootFlat})
    \/ is_initialized /\ Stop
    \/ ManagerAddListener
    \/ ListenerRoom /\ Deliver(PortfolioEvents)
    \/ ListenerRoom /\ Deliver(PortfolioFills)
    \/ Tick(PortfolioTimes)

SpecPositions == InitListeners /\ [][NextPositions]_vars

----------------------------------------------------------------------------
(* SpecThrottle: the order-book feed of SpecBook, started and not stopped,  *)
(* with its listener, the operations not being recorded in last_call.  The clock keeps advancing;  *)
(* nothing else is scheduled: the feed starts no timer and no thread of its *)
(* own, and the transport may stop delivering at any time.                  *)

Unrecorded == UNCHANGED <<last_call, reads, api_calls>>

ThrottleStart ==
    /\ StartRoom(OBF, transports)
    /\ \E coins \in BookCoins :
          LET r == OrderBookFeed_start(OBF, coins, TRUE, transports)
          IN  /\ orderbook_feed' = Some(r.feed)
              /\ transports' = r.transports
    /\ Unrecorded
    /\ UNCHANGED <<now, now_ms, delivery, Config, is_initialized, ws_client,
                   price_feed, user_state_feed>>

ThrottleDeliver ==
    \E msg \in BookMessages :
        /\ transports[1].is_connected
        /\ MsgChan(msg) \in transports[1].subs
        /\ Delivered(OBF, msg.data.coin) < MaxBookSeq
        /\ LET st == Dispatch(transports[1].on_message, msg,
                              [pf |-> PF, obf |-> OBF, usf |-> USF, raised |-> FALSE])
           IN  /\ price_feed' = Some(st.pf)
               /\ orderbook_feed' = Some(st.obf)
               /\ user_state_feed' = Some(st.usf)
        /\ Unrecorded
        /\ UNCHANGED <<now, now_ms, delivery, Config, is_initialized, ws_client,
                       transports>>

ThrottleTick ==
    /\ \E t \in BookTimes : t > now_ms /\ now_ms' = t
    /\ Unrecorded
    /\ UNCHANGED <<now, delivery, Config, ManagerState>>

NextThrottle ==
    \/ ThrottleStart
    \/ ThrottleDeliver
    \/ ThrottleTick

SpecThrottle == InitBook /\ [][NextThrottle]_vars /\ WF_vars(ThrottleTick)

----------------------------------------------------------------------------
(* SpecStart: several threads of the application call start() on a manager *)
(* that is stopped.  start() tests _is_initialized and use_websocket before *)
(* it takes the lock; delivery holds, in the order they passed the tests,   *)
(* the threads that wait for the lock or are about to take it.  The body    *)
(* runs under the lock, one thread at a time.                               *)

StartThreads == {1, 2, 3}

Waiting(t) == \E i \in 1..Len(delivery) : delivery[i] = t

\* a thread calls start(): the two tests before the lock
StartEnter ==
    \E t \in StartThreads :
        /\ ~Waiting(t)
        /\ IF is_initialized \/ ~use_websocket
           THEN /\ last_call' = Call("start", None, Returned(is_initialized), <<>>)
                /\ UNCHANGED delivery
           ELSE /\ last_call' = Call("start.enter", None, Returned(None), <<>>)
                /\ delivery' = Append(delivery, t)
        /\ NotARead
        /\ UNCHANGED <<now, now_ms, Config, ManagerState>>

\* one of the waiting threads takes the lock and runs the body
StartLocked ==
    \E i \in 1..Len(delivery), coins \in StartCoins, conn \in BOOLEAN :
        /\ delivery' = SubSeq(delivery, 1, i - 1) \o SubSeq(delivery, i + 1, Len(delivery))
        /\ Manager_start_locked(coins, conn, BootLoaded)
        /\ NotARead
        /\ UNCHANGED <<now, now_ms, Config>>

InitStart ==
    /\ Constructed
    /\ use_websocket \in BOOLEAN
    /\ fallback_to_api \in BOOLEAN
    /\ ACCOUNT_ADDRESS \in {"", Address}

NextStart ==
    \/ StartEnter
    \/ StartLocked
    \/ Deliver(MarketMessages)
    \/ GetCurrentPrice(FALSE)

SpecStart == InitStart /\ [][NextStart]_vars

----------------------------------------------------------------------------
(* The properties.  Each is stated over the fields of the manager and of   *)
(* its feeds and over last_call, the record of the operation just done.    *)

\* what the feeds hold for an instrument, and how old it is
TickerOf(symbol) == price_feed[1].prices[symbol]
BookOf(symbol) == orderbook_feed[1].orderbooks[symbol]
PositionOf(symbol) == user_state_feed[1].positions[symbol]

FreshTicker(symbol) ==
    /\ is_initialized /\ price_feed # None /\ TickerOf(symbol) # None
    /\ now - TickerOf(symbol)[1].last_update <= 5

FreshBook(symbol) ==
    /\ is_initialized /\ orderbook_feed # None /\ BookOf(symbol) # None
    /\ now - BookOf(symbol)[1].last_update <= 2

FreshPosition(symbol) ==
    /\ is_initialized /\ user_state_feed # None /\ PositionOf(symbol) # None
    /\ now - PositionOf(symbol)[1].last_update <= 30

\* source (a) of get_ask_bid applies: a fresh ticker with positive bid and ask
TickerQuotes(symbol) ==
    /\ FreshTicker(symbol)
    /\ TickerOf(symbol)[1].bid > 0 /\ TickerOf(symbol)[1].ask > 0

\* source (b) of get_ask_bid applies: a fresh book with a level on each side
BookQuotes(symbol) ==
    /\ FreshBook(symbol)
    /\ BookOf(symbol)[1].bids # <<>> /\ BookOf(symbol)[1].asks # <<>>

\* source (b), the best price of each side being also nonzero
BookQuotesNonzero(symbol) ==
    /\ BookQuotes(symbol)
    /\ BookOf(symbol)[1].bids[1].price # 0 /\ BookOf(symbol)[1].asks[1].price # 0

\* C2: get_current_price(symbol) returns the price feed's price for symbol,
\* without a fallback call, if and only if the manager is initialized, the
\* feed tracks symbol and its last update is at most 5 seconds old;
\* otherwise, the fallback being permitted, it returns the result of exactly
\* one fallback call.
C2_CurrentPriceFeedIffFresh ==
    last_call.op = "get_current_price" =>
        IF FreshTicker(last_call.arg)
        THEN /\ last_call.src = "feed"
             /\ last_call.ret = TickerOf(last_call.arg)[1].price
             /\ last_call.calls = 0
        ELSE /\ last_call.src # "feed"
             /\ fallback_to_api =>
                  /\ last_call.src = "api"
                  /\ last_call.ret \in ApiPrices
                  /\ last_call.calls = 1

\* a price exactly 5 seconds old is answered from the feed
C2_Witness ==
    /\ last_call.op = "get_current_price"
    /\ last_call.src = "feed"
    /\ now - TickerOf(last_call.arg)[1].last_update = 5

\* C3 as stated: get_ask_bid answers (a) from the ticker when its bid and
\* ask are positive and it is not stale, else (b) from the book's best ask
\* and best bid when both exist and the book is not stale, else (c) from the
\* fallback; the fallback is never called where (a) or (b) applies.
C3_AskBidOrderAsStated ==
    last_call.op = "get_ask_bid" =>
        LET symbol == last_call.arg
        IN  /\ TickerQuotes(symbol) =>
                 /\ last_call.src = "feed"
                 /\ last_call.ret = <<TickerOf(symbol)[1].ask, TickerOf(symbol)[1].bid, None>>
            /\ ~TickerQuotes(symbol) /\ BookQuotes(symbol) =>
                 /\ last_call.src = "feed"
                 /\ last_call.ret = <<BookOf(symbol)[1].asks[1].price,
                                      BookOf(symbol)[1].bids[1].price, None>>
            /\ ~TickerQuotes(symbol) /\ ~BookQuotes(symbol) /\ fallback_to_api =>
                 /\ last_call.src = "api"
                 /\ last_call.calls = 1
            /\ TickerQuotes(symbol) \/ BookQuotes(symbol) => last_call.calls = 0

\* C3, amended: as C3, source (b) applying when the best ask and the best
\* bid both exist and are both nonzero; the fallback is never called where
\* (a) or this (b) applies.
C3_AskBidOrder ==
    last_call.op = "get_ask_bid" =>
        LET symbol == last_call.arg
        IN  /\ TickerQuotes(symbol) =>
                 /\ last_call.src = "feed"
                 /\ last_call.ret = <<TickerOf(symbol)[1].ask, TickerOf(symbol)[1].bid, None>>
            /\ ~TickerQuotes(symbol) /\ BookQuotesNonzero(symbol) =>
                 /\ last_call.src = "feed"
                 /\ last_call.ret = <<BookOf(symbol)[1].asks[1].price,
                                      BookOf(symbol)[1].bids[1].price, None>>
            /\ ~TickerQuotes(symbol) /\ ~BookQuotesNonzero(symbol) =>
                 IF fallback_to_api
                 THEN last_call.src = "api" /\ last_call.calls = 1
                 ELSE last_call.src = "raise"
            /\ TickerQuotes(symbol) \/ BookQuotesNonzero(symbol) => last_call.calls = 0

\* the ticker does not qualify and the answer is the book's best ask and bid
C3_Witness ==
    /\ last_call.op = "get_ask_bid"
    /\ ~TickerQuotes(last_call.arg)
    /\ BookQuotesNonzero(last_call.arg)
    /\ last_call.src = "feed"

\* no fresh feed value answers the read op of symbol
NoFreshValue(op, symbol) ==
    IF op = "get_current_price" THEN ~FreshTicker(symbol)
    ELSE IF op = "get_ask_bid" THEN ~TickerQuotes(symbol) /\ ~BookQuotes(symbol)
    ELSE ~FreshBook(symbol)

\* C4: with the fallback not permitted and no fresh feed value,
\* get_current_price, get_ask_bid and get_orderbook each raise, and leave the
\* manager and the feeds as they were.
C4_RaisesWithoutFallback ==
    /\ []((/\ last_call.op \in {"get_current_price", "get_ask_bid", "get_orderbook"}
           /\ ~fallback_to_api
           /\ NoFreshValue(last_call.op, last_call.arg))
          => last_call.src = "raise")
    /\ [][(/\ last_call'.op \in {"get_current_price", "get_ask_bid", "get_orderbook"}
           /\ last_call'.src = "raise")
          => UNCHANGED <<ManagerState, Config, now>>]_vars

\* a running manager whose book is stale raises from get_orderbook
C4_Witness ==
    /\ last_call.op = "get_orderbook"
    /\ last_call.src = "raise"
    /\ is_initialized /\ orderbook_feed # None /\ BookOf(last_call.arg) # None
    /\ now - BookOf(last_call.arg)[1].last_update > 2

\* C1 as stated: a read (get_current_price, get_ask_bid, get_orderbook,
\* get_position, get_account_value, get_balance, get_all_positions) returns
\* a value cached by a feed only if the manager is running and the value is
\* not stale under its threshold (5 s prices, 2 s books, 30 s user state).
C1_NoStaleCachedValue ==
    (last_call.op \in Reads /\ last_call.src = "feed") =>
        /\ is_initialized
        /\ last_call.op = "get_current_price" => FreshTicker(last_call.arg)
        /\ last_call.op = "get_ask_bid" =>
              FreshTicker(last_call.arg) \/ FreshBook(last_call.arg)
        /\ last_call.op = "get_orderbook" => FreshBook(last_call.arg)
        /\ last_call.op = "get_position" => FreshPosition(last_call.arg)
        /\ last_call.op = "get_all_positions" =>
              \A c \in Coins : PositionOf(c) # None => FreshPosition(c)
        /\ last_call.op \in {"get_account_value", "get_balance"} =>
              now - user_state_feed[1].account_state.last_update <= 30

\* C7: the manager running and the user-state feed holding a Position of
\* symbol at most 30 seconds old, get_position(symbol) returns exactly
\* ([position dict], True, size, symbol, entry_price, return_on_equity * 100,
\* size > 0), without a fallback call.
C7_PositionTuple ==
    (last_call.op = "get_position" /\ FreshPosition(last_call.arg)) =>
        LET pos == PositionOf(last_call.arg)[1]
        IN  /\ last_call.src = "feed"
            /\ last_call.calls = 0
            /\ Len(last_call.ret) = 7
            /\ Len(last_call.ret[1]) = 1
            /\ last_call.ret[1][1].coin = last_call.arg
            /\ last_call.ret[1][1].size = pos.size
            /\ last_call.ret[1][1].entry_price = pos.entry_price
            /\ last_call.ret[1][1].pnl_percent = pos.return_on_equity * 100
            /\ last_call.ret[2] = TRUE
            /\ last_call.ret[3] = pos.size
            /\ last_call.ret[4] = last_call.arg
            /\ last_call.ret[5] = pos.entry_price
            /\ last_call.ret[6] = pos.return_on_equity * 100
            /\ last_call.ret[7] = (pos.size > 0)

\* a short position exactly 30 seconds old is answered from the feed
C7_Witness ==
    /\ last_call.op = "get_position"
    /\ FreshPosition(last_call.arg)
    /\ PositionOf(last_call.arg)[1].size < 0
    /\ now - PositionOf(last_call.arg)[1].last_update = 30
    /\ last_call.ret[7] = FALSE

\* C8 as stated: no fresh Position of symbol being available from the
\* user-state feed and the fallback being permitted, get_position(symbol)
\* performs the fallback query; it does not answer 'no position' from the
\* feed's absence of data.
C8_PositionFallsBack ==
    (last_call.op = "get_position" /\ fallback_to_api
     /\ ~FreshPosition(last_call.arg)) =>
        /\ last_call.src = "api"
        /\ last_call.calls = 1

\* the reads that take an account address
AccountReads == {"get_account_value", "get_balance", "get_all_positions"}

\* WebSocket mode disabled: nothing was created
NothingCreated ==
    /\ ~is_initialized
    /\ ws_client = NoWs
    /\ transports = <<>>
    /\ price_feed = None /\ orderbook_feed = None /\ user_state_feed = None
    /\ last_call.op = "start" => last_call.ret = FALSE

\* C5 as stated: WebSocket mode being disabled by configuration, start()
\* returns false and creates no transport and no feed, and every read
\* delegates to the fallback exactly once per call: n sequential reads
\* make exactly n fallback calls.
C5_DisabledDelegatesAsStated ==
    ~use_websocket => (NothingCreated /\ api_calls = reads)

\* the fallback calls a read makes with WebSocket mode disabled: one, if the
\* fallback is permitted and, for a read taking an address, one is passed
FallbackCallsOf(call) ==
    IF fallback_to_api /\ (call.op \in AccountReads => call.arg # None)
    THEN 1 ELSE 0

\* C5, amended: WebSocket mode being disabled, start() returns false and
\* creates no transport and no feed; a read makes exactly one fallback call
\* when the fallback is permitted and, for get_account_value, get_balance and
\* get_all_positions, an address is passed, and answers with its result;
\* any other read makes no fallback call and raises or returns its sentinel.
C5_DisabledDelegates ==
    /\ [](~use_websocket => NothingCreated)
    /\ []((~use_websocket /\ last_call.op \in Reads) =>
            /\ last_call.calls = FallbackCallsOf(last_call)
            /\ last_call.src = IF FallbackCallsOf(last_call) = 1 THEN "api"
                               ELSE IF last_call.op \in {"get_current_price",
                                                         "get_ask_bid", "get_orderbook"}
                               THEN "raise" ELSE "sentinel")
    /\ [][(~use_websocket /\ reads' = reads + 1) =>
            /\ last_call'.op \in Reads
            /\ api_calls' = api_calls + last_call'.calls]_vars

\* three reads in a row, three fallback calls
C5_Witness ==
    /\ ~use_websocket
    /\ reads = 3
    /\ api_calls = 3
    /\ last_call.src = "api"

\* C6 as stated: the manager not running, no read returns data cached by a
\* feed, even if the feeds hold fresh values; reads return the fallback
\* result or the sentinel rather than failing.
C6_NotRunningAsStated ==
    (~is_initialized /\ last_call.op \in Reads) =>
        last_call.src \in {"api", "sentinel"}

\* C6, amended: the manager not running, no read returns data cached by a
\* feed, even if the feeds hold fresh values; a read returns the fallback
\* result when a fallback is available to it, and otherwise returns its
\* sentinel, except that get_current_price, get_ask_bid and get_orderbook
\* raise when the fallback is not permitted.
C6_NotRunningNoFeedData ==
    (~is_initialized /\ last_call.op \in Reads) =>
        last_call.src = IF FallbackCallsOf(last_call) = 1 THEN "api"
                        ELSE IF last_call.op \in {"get_current_price",
                                                  "get_ask_bid", "get_orderbook"}
                        THEN "raise" ELSE "sentinel"

\* after stop() the price feed still holds a fresh price, and
\* get_current_price answers from the fallback
C6_Witness ==
    /\ ~is_initialized
    /\ last_call.op = "get_current_price"
    /\ last_call.src = "api"
    /\ price_feed # None
    /\ TickerOf(last_call.arg) # None
    /\ now - TickerOf(last_call.arg)[1].last_update <= 5

\* the positions of the log at which entry kind is made
LogAt(log, kind) == {i \in 1..Len(log) : log[i][1] = kind}

FeedStops == {"PriceFeed.stop", "OrderBookFeed.stop", "UserStateFeed.stop"}

\* C9: after a successful start the three feeds hold the manager's one
\* transport and none of them owns it; a feed's stop() never closes it; it
\* is closed only by the manager's stop().
C9_SharedTransport ==
    /\ [](is_initialized =>
            /\ ws_client # NoWs
            /\ price_feed # None /\ orderbook_feed # None /\ user_state_feed # None
            /\ price_feed[1].ws = ws_client /\ ~price_feed[1].owns_ws
            /\ orderbook_feed[1].ws = ws_client /\ ~orderbook_feed[1].owns_ws
            /\ user_state_feed[1].ws = ws_client /\ ~user_state_feed[1].owns_ws)
    /\ [](last_call.op \in FeedStops => LogAt(last_call.log, "close") = {})
    /\ [][\A t \in DOMAIN transports :
            (~transports[t].closed /\ transports'[t].closed) =>
                (last_call'.op = "stop" /\ t = ws_client)]_vars

\* a running feed of a running manager was stopped: it unsubscribed, and the
\* transport is still open and connected
C9_Witness ==
    /\ is_initialized
    /\ last_call.op = "PriceFeed.stop"
    /\ LogAt(last_call.log, "unsubscribe") # {}
    /\ ~price_feed[1].is_running
    /\ ~transports[ws_client].closed
    /\ transports[ws_client].is_connected

\* C10: the manager's stop() stops the three feeds, each unsubscribing,
\* before it closes the transport, and leaves the manager not running;
\* called on a manager never started or already stopped it raises nothing
\* and leaves it stopped.
C10_StopOrder ==
    /\ [](last_call.op = "stop" =>
            /\ last_call.src = "none"
            /\ ~is_initialized
            /\ price_feed # None => ~price_feed[1].is_running
            /\ orderbook_feed # None => ~orderbook_feed[1].is_running
            /\ user_state_feed # None => ~user_state_feed[1].is_running
            /\ ws_client # NoWs =>
                 /\ transports[ws_client].closed
                 /\ ~transports[ws_client].is_connected
                 /\ LogAt(last_call.log, "close") = {Len(last_call.log)}
            /\ \A i \in LogAt(last_call.log, "unsubscribe") :
                 \A j \in LogAt(last_call.log, "close") : i < j)
    /\ [][last_call'.op = "stop" =>
            /\ (/\ price_feed # None /\ price_feed[1].is_running
                /\ transports[ws_client].is_connected)
               => Cardinality(LogAt(last_call'.log, "unsubscribe"))
                     >= Cardinality(PriceFeedChans(price_feed[1].monitored_coins))
            /\ ~is_initialized => UNCHANGED <<is_initialized, ws_client>>]_vars

\* stop() of a running manager: unsubscriptions, then the close
C10_Witness ==
    /\ last_call.op = "stop"
    /\ LogAt(last_call.log, "unsubscribe") # {}
    /\ LogAt(last_call.log, "close") # {}
    /\ ~is_initialized

\* C11: start() called on a running feed, or on a running manager, returns
\* true and changes nothing: no transport is created, no handler attached, no
\* subscription sent, and the feeds with their cached state and monitored
\* coins are what they were.
C11_RunningStartUnchanged ==
    [][/\ (last_call'.op = "PriceFeed.start" /\ PF.is_running) =>
            /\ last_call'.ret = TRUE /\ last_call'.log = <<>>
            /\ UNCHANGED <<Config, ManagerState>>
       /\ (last_call'.op = "OrderBookFeed.start" /\ OBF.is_running) =>
            /\ last_call'.ret = TRUE /\ last_call'.log = <<>>
            /\ UNCHANGED <<Config, ManagerState>>
       /\ (last_call'.op = "UserStateFeed.start" /\ USF.is_running) =>
            /\ last_call'.ret = TRUE /\ last_call'.log = <<>>
            /\ UNCHANGED <<Config, ManagerState>>
       /\ (last_call'.op = "start" /\ is_initialized) =>
            /\ last_call'.ret = TRUE /\ last_call'.log = <<>>
            /\ UNCHANGED <<Config, ManagerState>>]_vars

\* start() has returned true without a subscription, on a running order-book
\* feed that holds a book built from a message
C11_Witness ==
    /\ last_call.op = "OrderBookFeed.start"
    /\ last_call.ret = TRUE /\ last_call.log = <<>>
    /\ orderbook_feed # None /\ OBF.is_running
    /\ Delivered(OBF, "BTC") = 1

\* the result of the start() that last_call records, of a component whose
\* transport is ws and whose running flag is running
TimedOutStart(op, ws, running) ==
    last_call.op = op =>
        /\ last_call.src = "none"
        /\ (ws # NoWs /\ ~transports[ws].is_connected) => last_call.ret = FALSE
        /\ last_call.ret = FALSE => (last_call.log = <<>> /\ ~running)

\* C12: when the transport has not connected by the end of the wait, start()
\* of a feed or of the manager returns false: it raises nothing, sends no
\* subscription and leaves the component not running, so that a later start()
\* is not answered by the early return of a running component.
C12_TimedOutStart ==
    /\ price_feed # None => TimedOutStart("PriceFeed.start", PF.ws, PF.is_running)
    /\ orderbook_feed # None =>
          TimedOutStart("OrderBookFeed.start", OBF.ws, OBF.is_running)
    /\ user_state_feed # None =>
          TimedOutStart("UserStateFeed.start", USF.ws, USF.is_running)
    /\ TimedOutStart("start", ws_client, is_initialized)

\* a second start() of an order-book feed that creates its transport has
\* timed out as the first did
C12_Witness ==
    /\ last_call.op = "OrderBookFeed.start"
    /\ last_call.ret = FALSE
    /\ OBF.owns_ws /\ OBF.ws = 2
    /\ ~transports[1].is_connected /\ ~transports[2].is_connected
    /\ ~OBF.is_running

\* what the stop() that last_call records has left: the feed f not running,
\* and a close only of a transport f created
FeedStopped(op, f) ==
    last_call.op = op =>
        /\ last_call.src = "none"
        /\ ~f.is_running
        /\ LogAt(last_call.log, "close") # {} =>
              (f.owns_ws /\ transports[f.ws].closed)

\* a step of the stop() named op, from the feed f to the feed g, whose
\* subscriptions are chans
FeedStopStep(op, f, g, chans) ==
    last_call'.op = op =>
        IF f.is_running
        THEN /\ ~g.is_running
             /\ Cardinality(LogAt(last_call'.log, "unsubscribe")) = Cardinality(chans)
             /\ transports'[f.ws].subs \cap chans = {}
             /\ (LogAt(last_call'.log, "close") # {}) = f.owns_ws
             /\ transports'[f.ws].closed = (f.owns_ws \/ transports[f.ws].closed)
        ELSE /\ last_call'.log = <<>>
             /\ g = f
             /\ transports' = transports

C14_SequencePerMessage ==
    [][/\ \A c \in Coins :
            (last_call'.op = "deliver" /\ MsgChan(last_call'.arg) = ChanL2Book(c)) =>
                /\ Delivered(orderbook_feed'[1], c) = Delivered(OBF, c) + 1
                /\ \A d \in Coins \ {c} :
                      Delivered(orderbook_feed'[1], d) = Delivered(OBF, d)
       /\ (OBF.is_running /\ orderbook_feed'[1].is_running) =>
            \A c \in Coins :
                /\ Delivered(orderbook_feed'[1], c) >= Delivered(OBF, c)
                /\ Delivered(orderbook_feed'[1], c) # Delivered(OBF, c) =>
                      last_call'.op = "deliver"]_vars

\* the fraction q is (b - a) / (b + a), or 0 when b and a are both 0, and
\* lies in [-1, 1]
IsImbalanceOf(q, b, a) ==
    /\ q[2] > 0
    /\ IF b + a = 0 THEN q[1] = 0 ELSE q[1] * (b + a) = (b - a) * q[2]
    /\ -q[2] <= q[1] /\ q[1] <= q[2]

\* the imbalance read is that of the ladder the feed holds for coin
ImbalanceRead(q, coin) ==
    IF OBF.orderbooks[coin] = None THEN q[1] = 0
    ELSE IsImbalanceOf(q, SumSizes(OBF.orderbooks[coin][1].bids),
                          SumSizes(OBF.orderbooks[coin][1].asks))

\* C16: the imbalance read through get_imbalance, get_depth or to_dict is
\* (bid_depth - ask_depth) / (bid_depth + ask_depth) of the ladder held at
\* the read, 0 when both depths are 0, and within [-1, 1].
C16_Imbalance ==
    /\ last_call.op = "OrderBookFeed.get_imbalance" =>
          ImbalanceRead(last_call.ret, last_call.arg)
    /\ last_call.op = "OrderBookFeed.get_depth" =>
          ImbalanceRead(last_call.ret.imbalance, last_call.arg)
    /\ last_call.op = "OrderBook.to_dict" =>
          /\ ImbalanceRead(last_call.ret.imbalance, last_call.arg)
          /\ IsImbalanceOf(last_call.ret.imbalance, last_call.ret.bid_depth,
                           last_call.ret.ask_depth)

\* get_imbalance has answered one half for depths 30 and 10
C16_Witness ==
    /\ last_call.op = "OrderBookFeed.get_imbalance"
    /\ OBF.orderbooks[last_call.arg] # None
    /\ bid_depth(OBF.orderbooks[last_call.arg][1]) = 30
    /\ ask_depth(OBF.orderbooks[last_call.arg][1]) = 10
    /\ 2 * last_call.ret[1] = last_call.ret[2]

\* last_call is the delivery of an order-book message to a feed that holds
\* a book for its instrument
BookDelivered ==
    /\ last_call.op = "deliver"
    /\ last_call.arg.channel = "l2Book"
    /\ orderbook_feed # None
    /\ OBF.orderbooks[last_call.arg.data.coin] # None

StoredBook == OBF.orderbooks[last_call.arg.data.coin][1]

Min(a, b) == IF a < b THEN a ELSE b

Descending(levels) ==
    \A i \in 1..(Len(levels) - 1) : levels[i].price >= levels[i + 1].price

Ascending(levels) ==
    \A i \in 1..(Len(levels) - 1) : levels[i].price <= levels[i + 1].price

WellFormed(level) == level.px # Unparseable /\ level.sz # Unparseable

\* the well-formed levels among the first n of raw, as stored, in raw's order
Kept(raw, n) ==
    LET good == SelectSeq(SubSeq(raw, 1, Min(Len(raw), n)), WellFormed)
    IN  [i \in 1..Len(good) |->
            [price |-> good[i].px[1], size |-> good[i].sz[1], count |-> good[i].n]]

\* C17 as stated: after an order-book message the stored bids number
\* min(bid levels in the message, depth_levels), highest price first, and the
\* stored asks min(ask levels in the message, depth_levels), lowest first.
C17_LadderAsStated ==
    BookDelivered =>
        /\ Len(StoredBook.bids) = Min(Len(last_call.arg.data.bids), OBF.depth_levels)
        /\ Descending(StoredBook.bids)
        /\ Len(StoredBook.asks) = Min(Len(last_call.arg.data.asks), OBF.depth_levels)
        /\ Ascending(StoredBook.asks)

\* C17, amended: after an order-book message the stored bids are the
\* well-formed levels among the first depth_levels bid levels of the message,
\* in the message's order, and the stored asks likewise: as many as
\* min(levels in the message, depth_levels) when none of those is malformed,
\* and ordered by price as the message orders them.
C17_Ladder ==
    BookDelivered =>
        /\ StoredBook.bids = Kept(last_call.arg.data.bids, OBF.depth_levels)
        /\ StoredBook.asks = Kept(last_call.arg.data.asks, OBF.depth_levels)
        /\ Len(StoredBook.bids) <= Min(Len(last_call.arg.data.bids), OBF.depth_levels)
        /\ Len(StoredBook.asks) <= Min(Len(last_call.arg.data.asks), OBF.depth_levels)
        /\ (\A i \in 1..Min(Len(last_call.arg.data.bids), OBF.depth_levels) :
                WellFormed(last_call.arg.data.bids[i]))
             => Len(StoredBook.bids)
                  = Min(Len(last_call.arg.data.bids), OBF.depth_levels)
        /\ Descending(StoredBook.bids)
        /\ Ascending(StoredBook.asks)

\* a message of three well-formed bid levels has left the two best
C17_Witness ==
    /\ BookDelivered
    /\ Len(last_call.arg.data.bids) = 3
    /\ \A i \in 1..3 : WellFormed(last_call.arg.data.bids[i])
    /\ Len(StoredBook.bids) = 2
    /\ StoredBook.bids[1].price > StoredBook.bids[2].price

\* a notification for coin is due: none was made yet, or the last one was
\* made update_throttle_ms or more before
NotificationDue(f, coin) ==
    \/ f.last_emit_time[coin] = None
    \/ now_ms - f.last_emit_time[coin][1] >= f.update_throttle_ms

\* C18: every order-book message replaces the stored ladder at once; the
\* listener is notified for it only if update_throttle_ms have passed since
\* the last notification for the same instrument, and a message for one
\* instrument changes neither the notifications nor the throttle clock of
\* another.
C18_Throttle ==
    [][\A c \in Coins :
         (/\ last_call'.op = "deliver"
          /\ last_call'.arg.channel = "l2Book"
          /\ last_call'.arg.data.coin = c) =>
            LET f == OBF
                g == orderbook_feed'[1]
            IN  /\ g.orderbooks[c][1].bids = Kept(last_call'.arg.data.bids, f.depth_levels)
                /\ g.orderbooks[c][1].asks = Kept(last_call'.arg.data.asks, f.depth_levels)
                /\ Delivered(g, c) > Delivered(f, c)
                /\ Len(g.notified[c]) =
                      Len(f.notified[c]) + (IF NotificationDue(f, c) THEN 1 ELSE 0)
                /\ g.last_emit_time[c] =
                      (IF NotificationDue(f, c) THEN Some(now_ms) ELSE f.last_emit_time[c])
                /\ \A d \in Coins \ {c} :
                      /\ g.notified[d] = f.notified[d]
                      /\ g.last_emit_time[d] = f.last_emit_time[d]
                      /\ g.orderbooks[d] = f.orderbooks[d]]_vars

\* two messages for BTC 10 ms apart: two updates and one notification, while
\* the message for ETH that came with the second was notified
C18_Witness ==
    /\ now_ms = 10
    /\ Len(transports[1].on_message) = 1
    /\ Delivered(OBF, "BTC") = 2
    /\ OBF.notified["BTC"] = <<1>>
    /\ OBF.last_emit_time["BTC"] = Some(0)
    /\ OBF.notified["ETH"] = <<1>>
    /\ OBF.last_emit_time["ETH"] = Some(10)

\* the order-book message msg has a level that does not parse
HasMalformed(msg) ==
    \/ \E i \in 1..Len(msg.data.bids) : ~WellFormed(msg.data.bids[i])
    \/ \E i \in 1..Len(msg.data.asks) : ~WellFormed(msg.data.asks[i])

\* the times the order-book feed's handler is in the chain of transport t
Attached(t) ==
    Cardinality({i \in 1..Len(transports[t].on_message) :
                    transports[t].on_message[i] = "orderbook"})

C20_NoExceptionEscapes ==
    last_call.op = "deliver" => last_call.src # "raise"

\* C15: no reader observes a partially updated OrderBook: the bids and the
\* asks one read of a book returns are those of one message, or both the
\* empty ladders of a book that has had no message.
C15_NoTornRead ==
    last_call.op = "OrderBook.to_dict" =>
        \/ last_call.ret.bids = <<>> /\ last_call.ret.asks = <<>>
        \/ \E msg \in RaceMessages :
              /\ msg.data.coin = last_call.arg
              /\ last_call.ret.bids = Kept(msg.data.bids, OBF.depth_levels)
              /\ last_call.ret.asks = Kept(msg.data.asks, OBF.depth_levels)

\* C30: whenever the manager is running, all three feeds are running.
C30_RunningManagerRunningFeeds ==
    is_initialized =>
        /\ price_feed # None /\ PF.is_running
        /\ orderbook_feed # None /\ OBF.is_running
        /\ user_state_feed # None /\ USF.is_running

\* C24: the account holding a position when start() runs, a user-state feed
\* whose start() returned true tracks a position in every state before the
\* first user event is processed.
C24_NoEmptyWindow ==
    (user_state_feed # None /\ USF.is_running) =>
        \E c \in Coins : USF.positions[c] # None

\* what the feeds would be after the message just delivered if, in place of
\* their listeners, each had one listener of this kind that does not raise
SoleListener(kind) ==
    LET Sole(f) == [f EXCEPT !.listeners = <<Listener(kind, FALSE)>>]
    IN  Dispatch(transports[ws_client].on_message, last_call'.arg,
                 [pf |-> Sole(PF), obf |-> Sole(OBF), usf |-> Sole(USF),
                  raised |-> FALSE])

\* every listener of the feed was called with what a sole listener of its kind
\* is called with, and the feed holds what it holds with that one listener
AsWithSoleListeners(f, g, name) ==
    /\ \A i \in 1..Len(f.listeners) :
          g.listeners[i].heard =
             f.listeners[i].heard
             \o SoleListener(f.listeners[i].kind)[name].listeners[1].heard
    /\ [g EXCEPT !.listeners = <<>>]
         = [SoleListener("price")[name] EXCEPT !.listeners = <<>>]

\* C21: a listener that raises keeps no other listener of the event from being
\* called with it, and the message is processed as it is without that listener.
C21_ListenerIsolation ==
    [][(last_call'.op = "deliver" /\ ws_client # NoWs) =>
            /\ AsWithSoleListeners(PF, PF', "pf")
            /\ AsWithSoleListeners(OBF, OBF', "obf")
            /\ AsWithSoleListeners(USF, USF', "usf")
            /\ last_call'.src = IF SoleListener("price").raised THEN "raise" ELSE "none"]_vars

\* a raising listener registered before one that does not raise, both called
C21_Witness ==
    /\ last_call.op = "deliver"
    /\ \E i, j \in 1..Len(AllListeners) :
          /\ i < j
          /\ AllListeners[i].kind = AllListeners[j].kind
          /\ AllListeners[i].raises /\ ~AllListeners[j].raises
          /\ AllListeners[i].heard # <<>>
          /\ AllListeners[j].heard = AllListeners[i].heard
\* the position update just delivered names one instrument
PositionUpdate ==
    /\ last_call'.op = "deliver" /\ ws_client # NoWs
    /\ last_call'.arg.channel = "userEvents"
    /\ last_call'.arg.data.assetPositions # None
    /\ Len(last_call'.arg.data.assetPositions[1]) = 1

ClosedMarker(coin) == [coin |-> coin, size |-> 0, closed |-> TRUE]

\* each position listener was called once more, with data; the others were not
PositionListenersHeard(data) ==
    /\ Len(USF'.listeners) = Len(USF.listeners)
    /\ \A i \in 1..Len(USF.listeners) :
          USF'.listeners[i].heard =
             IF USF.listeners[i].kind = "position"
             THEN Append(USF.listeners[i].heard, data)
             ELSE USF.listeners[i].heard

\* C23: a position update of size zero for a tracked instrument removes it and
\* calls each position listener once with the closed marker; one of nonzero
\* size creates or replaces the position and calls each listener with its
\* dict; one of size zero for an instrument not tracked changes nothing and
\* calls no listener.
C23_DeleteOnZero ==
    [][PositionUpdate =>
         LET raw_pos == last_call'.arg.data.assetPositions[1][1]
             coin    == raw_pos.coin
         IN  /\ \A c \in Coins \ {coin} : USF'.positions[c] = USF.positions[c]
             /\ IF float(raw_pos.szi) # 0
                THEN /\ USF'.positions[coin] # None
                     /\ USF'.positions[coin][1].size = float(raw_pos.szi)
                     /\ USF'.positions[coin][1].last_update = now
                     /\ PositionListenersHeard(Position_to_dict(USF'.positions[coin][1]))
                ELSE IF USF.positions[coin] # None
                THEN /\ USF'.positions[coin] = None
                     /\ PositionListenersHeard(ClosedMarker(coin))
                ELSE /\ USF'.positions[coin] = None
                     /\ USF'.listeners = USF.listeners]_vars

\* a position listener called with a position's dict and then with the marker
\* of its close, the instrument not being tracked any more
C23_Witness ==
    /\ last_call.op = "deliver"
    /\ user_state_feed # None
    /\ USF.positions["BTC"] = None
    /\ \E i \in 1..Len(USF.listeners) :
          /\ USF.listeners[i].kind = "position"
          /\ Len(USF.listeners[i].heard) = 2
          /\ USF.listeners[i].heard[1].size = 1
          /\ USF.listeners[i].heard[2] = ClosedMarker("BTC")
\* the fills of a userFills message that parse, the last one first
RECURSIVE NewFills(_)
NewFills(fills_data) ==
    IF fills_data = <<>> THEN <<>>
    ELSE NewFills(Tail(fills_data))
         \o (IF fills_data[1].sz # Unparseable
             THEN <<Fill(fills_data[1].coin, fills_data[1].side, fills_data[1].sz[1],
                         fills_data[1].px[1], now, fills_data[1].fee[1],
                         str(fills_data[1].oid), fills_data[1].closedPnl[1])>>
             ELSE <<>>)

C26_TopOfBookMid ==
    price_feed # None =>
        \A c \in Coins :
            (PF.prices[c] # None /\ PF.prices[c][1].bid > 0 /\ PF.prices[c][1].ask > 0)
                => 2 * PF.prices[c][1].price = PF.prices[c][1].bid + PF.prices[c][1].ask
Tracked(f) == {c \in Coins : f.prices[c] # None}

\* C25: an instrument becomes tracked by the price feed only through an
\* aggregate-mid message that names it while it is monitored or nothing is;
\* no step removes a tracked instrument.
C25_TrackedSet ==
    [][(price_feed # None /\ price_feed' # None) =>
         /\ Tracked(PF) \subseteq Tracked(PF')
         /\ \A c \in Tracked(PF') \ Tracked(PF) :
               /\ last_call'.op = "deliver"
               /\ last_call'.arg.channel = "allMids"
               /\ c \in DOMAIN last_call'.arg.data
               /\ c \in PF.monitored_coins \/ PF.monitored_coins = {}]_vars

\* a feed restricted to BTC that has been sent mids of BTC and ETH and an
\* order book, and tracks BTC alone
C25_Witness ==
    /\ price_feed # None
    /\ PF.monitored_coins = {"BTC"}
    /\ Tracked(PF) = {"BTC"}
    /\ PF.prices["BTC"][1].bid > 0
    /\ last_call.op = "deliver"
    /\ last_call.arg.channel = "allMids"
    /\ "ETH" \in DOMAIN last_call.arg.data

\* what a query answers for an instrument the feed holds nothing for
Sentinel(q) ==
    CASE q \in {"PriceFeed.is_price_stale", "OrderBookFeed.is_orderbook_stale"} -> TRUE
      [] q = "PriceFeed.get_bid_ask" -> <<None, None>>
      [] q = "OrderBookFeed.get_depth" ->
            [bid_depth |-> 0, ask_depth |-> 0, imbalance |-> Frac(0, 1)]
      [] OTHER -> None

\* C27: for an instrument a feed has never seen, each of its queries returns
\* its sentinel.
C27_Sentinels ==
    /\ \A q \in PriceQueries :
          (last_call.op = q /\ PF.prices[last_call.arg] = None)
              => last_call.ret = Sentinel(q)
    /\ \A q \in BookQueries :
          (last_call.op = q /\ OBF.orderbooks[last_call.arg] = None)
              => last_call.ret = Sentinel(q)

\* both feeds running and holding BTC, and get_bid_ask asked about ETH
C27_Witness ==
    /\ last_call.op = "PriceFeed.get_bid_ask"
    /\ last_call.arg = "ETH"
    /\ last_call.ret = <<None, None>>
    /\ PF.is_running /\ OBF.is_running
    /\ PF.prices["BTC"] # None /\ PF.prices["ETH"] = None
    /\ OBF.orderbooks["ETH"] = None
\* when what a feed holds for the instrument asked about was last updated
HeldSince(q, coin) ==
    CASE q = "PriceFeed.is_price_stale" ->
            IF PF.prices[coin] = None THEN None ELSE Some(PF.prices[coin][1].last_update)
      [] q = "OrderBookFeed.is_orderbook_stale" ->
            IF OBF.orderbooks[coin] = None THEN None
            ELSE Some(OBF.orderbooks[coin][1].last_update)
      [] q = "UserStateFeed.is_position_stale" ->
            IF USF.positions[coin] = None THEN None
            ELSE Some(USF.positions[coin][1].last_update)

\* C28: in each of the three feeds, data whose age is at most the threshold is
\* fresh and data whose age is greater is stale, the age being measured when
\* the question is asked.
C28_StrictStaleness ==
    \A q \in StaleQueries :
        (last_call.op = q /\ HeldSince(q, last_call.arg.coin) # None) =>
            LET age == now - HeldSince(q, last_call.arg.coin)[1]
            IN  /\ age <= last_call.arg.max_age_seconds => last_call.ret = FALSE
                /\ age > last_call.arg.max_age_seconds => last_call.ret = TRUE

\* a ticker whose age is exactly the threshold, reported fresh
C28_Witness ==
    /\ last_call.op = "PriceFeed.is_price_stale"
    /\ last_call.arg.max_age_seconds = PRICE_STALE_THRESHOLD_SEC
    /\ PF.prices[last_call.arg.coin] # None
    /\ now - PF.prices[last_call.arg.coin][1].last_update = PRICE_STALE_THRESHOLD_SEC
    /\ last_call.ret = FALSE

\* C29: in every state get_data_source(instrument) is 'websocket' exactly when
\* get_current_price(instrument) would return the price feed's cached value.
C29_SourceIsReadPath ==
    \A symbol \in Coins, api \in ApiPrices :
        (get_data_source(symbol) = "websocket")
            <=> (Manager_get_current_price(symbol, api).src = "feed")

\* how many times the handler of the feed named h is attached to transport t
AttachedOf(t, h) ==
    Cardinality({i \in 1..Len(transports[t].on_message) : transports[t].on_message[i] = h})

\* C32: the handler of a feed constructed on an injected transport is never
\* attached to that transport more than once.
C32_HandlerAttachedOnce ==
    \A t \in DOMAIN transports :
        \A h \in {"price", "orderbook", "user"} : AttachedOf(t, h) <= 1

\* C33: once the manager's stop() has returned, every transport the manager
\* created has been closed.
C33_NoTransportLeaked ==
    last_call.op = "stop" =>
        \A t \in DOMAIN transports : transports[t].closed

\* C34: an order-book message whose handling raised in one feed's handler has
\* still been handled by the running order-book feed attached to the same
\* transport.
C34_RaiseDoesNotBlockOthers ==
    (/\ last_call.op = "deliver"
     /\ last_call.src = "raise"
     /\ last_call.arg.channel = "l2Book"
     /\ OBF.ws # NoWs /\ PF.ws = OBF.ws
     /\ OBF.is_running /\ AttachedOf(OBF.ws, "orderbook") >= 1)
        => Delivered(OBF, last_call.arg.data.coin) >= 1

\* C35: an order book the manager's get_orderbook returns as live feed data has
\* received at least one message: its sequence is not 0.
C35_NoPlaceholderAsFeedData ==
    (last_call.op = "get_orderbook" /\ last_call.src = "feed")
        => last_call.ret.sequence >= 1

\* C36: no step of an order-book feed lowers an instrument's sequence counter,
\* and a start() neither lowers it nor replaces the ladders a message applied.
C36_SequenceNeverDecreases ==
    [][\A c \in Coins :
          OBF.orderbooks[c] # None =>
              /\ OBF'.orderbooks[c] # None
              /\ OBF'.orderbooks[c][1].sequence >= OBF.orderbooks[c][1].sequence
              /\ OBF'.orderbooks[c][1].sequence = OBF.orderbooks[c][1].sequence
                    => /\ OBF'.orderbooks[c][1].bids = OBF.orderbooks[c][1].bids
                       /\ OBF'.orderbooks[c][1].asks = OBF.orderbooks[c][1].asks]_vars

\* C38: every position the user-state feed holds has a nonzero size, so that
\* has_position is true of exactly the instruments get_position returns a
\* Position for.
C38_LivePositionsNonzero ==
    user_state_feed # None =>
        \A c \in Coins :
            /\ USF.positions[c] # None => USF.positions[c][1].size # 0
            /\ UserStateFeed_has_position(USF, c)
                  <=> (UserStateFeed_get_position(USF, c) # None)

\* a position list has just been delivered to the user-state feed of the
\* running manager
PositionListDelivered ==
    /\ last_call'.op = "deliver" /\ ws_client # NoWs
    /\ last_call'.arg.channel = "userEvents"
    /\ last_call'.arg.data.assetPositions # None
    /\ last_call'.arg.data.marginSummary = None

\* the instruments a position list names
NamedCoins(positions_data) ==
    {positions_data[i].coin : i \in 1..Len(positions_data)}

\* C39: a position list is a partial update: the Position of an instrument the
\* list does not name is unchanged, no position listener is called about it,
\* and the fills and the account state are unchanged.
C39_PartialUpdate ==
    [][PositionListDelivered =>
         LET named == NamedCoins(last_call'.arg.data.assetPositions[1])
         IN  /\ \A c \in Coins \ named : USF'.positions[c] = USF.positions[c]
             /\ USF'.recent_fills = USF.recent_fills
             /\ USF'.account_state = USF.account_state
             /\ Len(USF'.listeners) = Len(USF.listeners)
             /\ \A i \in 1..Len(USF.listeners) :
                   /\ SubSeq(USF'.listeners[i].heard, 1, Len(USF.listeners[i].heard))
                         = USF.listeners[i].heard
                   /\ USF.listeners[i].kind # "position"
                         => USF'.listeners[i].heard = USF.listeners[i].heard
                   /\ \A k \in (Len(USF.listeners[i].heard) + 1)
                                  ..Len(USF'.listeners[i].heard) :
                         USF'.listeners[i].heard[k].coin \in named]_vars

\* a position list naming BTC alone was delivered one second after ETH's
\* position was stored: ETH's position is held with its old timestamp, and
\* the position listener heard of ETH once and then of BTC
C39_Witness ==
    /\ last_call.op = "deliver"
    /\ last_call.arg.channel = "userEvents"
    /\ last_call.arg.data.assetPositions # None
    /\ NamedCoins(last_call.arg.data.assetPositions[1]) = {"BTC"}
    /\ user_state_feed # None
    /\ now = 1
    /\ USF.positions["ETH"] # None
    /\ USF.positions["ETH"][1].size = 1
    /\ USF.positions["ETH"][1].last_update = 0
    /\ USF.positions["BTC"] # None
    /\ USF.positions["BTC"][1].last_update = 1
    /\ \E i \in 1..Len(USF.listeners) :
          /\ USF.listeners[i].kind = "position"
          /\ Len(USF.listeners[i].heard) = 2
          /\ USF.listeners[i].heard[1].coin = "ETH"
          /\ USF.listeners[i].heard[2].coin = "BTC"

\* C40: a listener registered through the manager's add_position_listener,
\* add_fill_listener or add_account_listener is registered with the
\* user-state feed of the manager once the call has returned, and a start()
\* of the manager leaves the manager with a user-state feed that has every
\* listener registered before it.
C40_ManagerListenersKept ==
    /\ [](last_call.op = "Manager.add_listener" =>
             /\ user_state_feed # None
             /\ \E i \in 1..Len(USF.listeners) :
                   USF.listeners[i].kind = last_call.arg)
    /\ [][(user_state_feed # None /\ last_call'.op = "start")
             => /\ user_state_feed' # None
                /\ \A i \in 1..Len(USF.listeners) :
                      \E j \in 1..Len(USF'.listeners) :
                          USF'.listeners[j].kind = USF.listeners[i].kind]_vars

\* C31: once a start() has made the manager running, no other start() creates
\* a transport or constructs feeds: the later callers leave the manager's
\* transport and feeds as they are.
C31_StartOnce ==
    [][is_initialized =>
          /\ Len(transports') = Len(transports)
          /\ ws_client' = ws_client
          /\ \A t \in DOMAIN transports :
                 transports'[t].on_message = transports[t].on_message]_vars

\* C37: once the order-book messages of an instrument have stopped, the last
\* notification its listener received carries the sequence number of the last
\* message processed.
C37_ListenersSeeLatest ==
    <>[](\A c \in Coins :
            (OBF.orderbooks[c] # None /\ OBF.orderbooks[c][1].sequence > 0)
                => /\ OBF.notified[c] # <<>>
                   /\ OBF.notified[c][Len(OBF.notified[c])]
                         = OBF.orderbooks[c][1].sequence)

====
